---- MODULE Spec2Model ----
(***************************************************************************)
(* Model of the continuous-beam analysis and design pipeline (PyViga):     *)
(* the domain model (entities.py), the matrix solver, the ELU design       *)
(* engine, the ELS checker, the detailing step of the controller, the      *)
(* batch loop and the section-height optimizer.                            *)
(*                                                                         *)
(* Python objects live on a heap: `heap` is a sequence of objects and an   *)
(* object's address is its index.  A reference is an address (0 is None),  *)
(* so that aliasing (a node shared by two spans, a trial beam sharing a    *)
(* span with the original) is visible in the model.                        *)
(*                                                                         *)
(* Floating-point results are kept as symbolic terms [op, args]: the name  *)
(* of the quantity and the integer inputs it was computed from.  Verdicts  *)
(* of the numerical checks (crack width, deflection), the steel mass of a  *)
(* trial and LAPACK's detection of a singular matrix come from `oracle`,   *)
(* an environment function fixed when a behaviour starts.                  *)
(***************************************************************************)
EXTENDS Integers, Sequences, FiniteSets, TLC

\* ------------------------------------------------------------------ bounds
MaxSpans == 2
MaxBeams == 3

\* Input values the actions draw from.
Lengths == {5}
Widths == {20}
BuildHeights == {40}
SupportTypes == {"PINNED", "FIXED", "FREE"}
Directions == {<<1, 0>>}
\* Load values are kept in units of 1/2000 kN/m, which makes the self weight
\* (bw/100)*(h/100)*25 the integer 5*bw*h.
SlabLoads == {30000}

\* --------------------------------------------------------------- utilities
Last(s) == s[Len(s)]

Range(s) == {s[i] : i \in 1..Len(s)}

RECURSIVE SumSeq(_)
SumSeq(s) == IF s = <<>> THEN 0 ELSE s[1] + SumSeq(Tail(s))

RECURSIVE Flatten(_)
Flatten(ss) == IF ss = <<>> THEN <<>> ELSE ss[1] \o Flatten(Tail(ss))

B2I(b) == IF b THEN 1 ELSE 0

\* dict.get(key, default) on a dict kept as a function over its keys.
Get(d, k, default) == IF k \in DOMAIN d THEN d[k] ELSE default

EmptyDict == <<>>

IsEmptyDict(d) == DOMAIN d = {}

\* Python's None as the value of an attribute that otherwise holds a record.
None == [none |-> TRUE]

IsNone(v) == DOMAIN v = {"none"}

\* A symbolic floating-point value.
Sym(op, args) == [op |-> op, args |-> args]
Zero == Sym("0.0", <<>>)

\* ------------------------------------------------------------ domain model
Section(bw, h) == [kind |-> "CrossSection", bw |-> bw, h |-> h]

Load(load_type, value, source) ==
    [kind |-> "Load", load_type |-> load_type, value |-> value, source |-> source]

Node(id, x, y, conds) ==
    [kind |-> "Node", id |-> id, x |-> x, y |-> y, support_conditions |-> conds]

BeamSpan(id, length, section, start_node, end_node) ==
    [kind |-> "BeamSpan", id |-> id, length |-> length, section |-> section,
     loads |-> <<>>, start_node |-> start_node, end_node |-> end_node,
     moment_left |-> Zero, moment_right |-> Zero,
     shear_left |-> Zero, shear_right |-> Zero,
     design_results |-> EmptyDict, detailing_results |-> EmptyDict,
     els_results |-> None]

Beam(id) == [id |-> id, spans |-> <<>>, nodes |-> <<>>, direction_vector |-> <<1, 0>>]

get_conditions(stype) ==
    CASE stype = "FIXED" -> <<TRUE, TRUE>>
      [] stype = "PINNED" -> <<TRUE, FALSE>>
      [] stype = "FREE" -> <<FALSE, FALSE>>
      [] OTHER -> <<TRUE, FALSE>>

\* add_span with the start node always created, never taken from the beam.
StartNodeAlwaysNew(hp, bm, start_coord, start_support) ==
    [heap |-> Append(hp, Node(0, start_coord[1], start_coord[2],
                              get_conditions(start_support))),
     nodes |-> Append(bm.nodes, Len(hp) + 1)]

\* add_span with the start support of the new span written to the beam's
\* last node whatever it is.
StartNodeOverwritten(hp, bm, start_coord, start_support) ==
    IF bm.nodes = <<>>
    THEN [heap |-> Append(hp, Node(0, start_coord[1], start_coord[2],
                                   get_conditions(start_support))),
          nodes |-> Append(bm.nodes, Len(hp) + 1)]
    ELSE [heap |-> [hp EXCEPT ![Last(bm.nodes)].support_conditions =
                                  get_conditions(start_support)],
          nodes |-> bm.nodes]

\* The start node of a new span: a new node 0 on an empty beam, otherwise the
\* beam's last node, made fully fixed when the new span starts FIXED.
\* Gives the heap and the beam's node list after the branch.
StartNode(hp, bm, start_coord, start_support) ==
    IF bm.nodes = <<>>
    THEN [heap |-> Append(hp, Node(0, start_coord[1], start_coord[2],
                                   get_conditions(start_support))),
          nodes |-> Append(bm.nodes, Len(hp) + 1)]
    ELSE [heap |-> IF start_support = "FIXED"
                   THEN [hp EXCEPT ![Last(bm.nodes)].support_conditions = <<TRUE, TRUE>>]
                   ELSE hp,
          nodes |-> bm.nodes]

\* add_span with the new span's start reference set to a copy of the node
\* instead of the node of the beam's list.
add_span_copied_start(hp, bm, length, section, start_coord, direction, start_support, end_support) ==
    LET span_id == Len(bm.spans) + 1
        s == StartNode(hp, bm, start_coord, start_support)
        hp1 == Append(s.heap, s.heap[Last(s.nodes)])
        start_node == Len(hp1)
        end_node_id == Len(s.nodes)
        hp2 == Append(hp1, Node(end_node_id, hp1[start_node].x + length * direction[1],
                                hp1[start_node].y + length * direction[2],
                                get_conditions(end_support)))
        end_node == Len(hp2)
        hp3 == Append(hp2, BeamSpan(span_id, length, section, start_node, end_node))
    IN  [heap |-> hp3,
         beam |-> [bm EXCEPT !.direction_vector = direction,
                             !.nodes = Append(s.nodes, end_node),
                             !.spans = Append(bm.spans, Len(hp3))]]

\* Beam.add_span: the heap and the beam after the call.
add_span(hp, bm, length, section, start_coord, direction, start_support, end_support) ==
    LET span_id == Len(bm.spans) + 1
        s == StartNode(hp, bm, start_coord, start_support)
        start_node == Last(s.nodes)
        new_x == s.heap[start_node].x + length * direction[1]
        new_y == s.heap[start_node].y + length * direction[2]
        end_node_id == Len(s.nodes)
        hp2 == Append(s.heap, Node(end_node_id, new_x, new_y, get_conditions(end_support)))
        end_node == Len(hp2)
        hp3 == Append(hp2, BeamSpan(span_id, length, section, start_node, end_node))
    IN  [heap |-> hp3,
         beam |-> [bm EXCEPT !.direction_vector = direction,
                             !.nodes = Append(s.nodes, end_node),
                             !.spans = Append(bm.spans, Len(hp3))]]

\* ----------------------------------------------------------------- oracle
\* The environment's answers.  A verdict is the default one unless the key is
\* in `flips`; keys are <<what, section height, span index>>.
Flipped(status) == IF status = "OK" THEN "FALHA" ELSE "OK"

OracleStatus(orc, what, h, i) ==
    IF <<what, h, i>> \in orc.flips THEN Flipped(orc.elsDefault) ELSE orc.elsDefault

\* Whether LAPACK's LU factorisation of a singular matrix ends on an exact zero
\* pivot (numpy raises LinAlgError only then); rounding decides, per input.
OracleDetects(orc, h) ==
    IF <<"lapack", h, 0>> \in orc.flips THEN ~orc.detects ELSE orc.detects

\* The steel mass (kg) of the bars and stirrups selected for a trial: one of
\* two values, the larger where the selection needs the heavier bars.
SteelKgValues == <<30, 55>>

OracleSteelKg(orc, h) ==
    IF <<"steel", h, 0>> \in orc.flips THEN SteelKgValues[2] ELSE SteelKgValues[1]

\* ------------------------------------------------------------ matrix solver
\* Sum of the span's distributed loads (the only kind the engines read).
QDistributed(hp, span) ==
    SumSeq([k \in 1..Len(span.loads) |->
              IF hp[span.loads[k]].load_type = "DISTRIBUTED"
              THEN hp[span.loads[k]].value ELSE 0])

\* Everything the solved system depends on, as integers: per span its length,
\* section and distributed load, per node its two restraint flags.
SolveKey(hp, bm) ==
    Flatten([e \in 1..Len(bm.spans) |->
               LET sp == hp[bm.spans[e]]
               IN  <<sp.length, hp[sp.section].bw, hp[sp.section].h, QDistributed(hp, sp)>>])
    \o Flatten([i \in 1..Len(bm.nodes) |->
                  <<B2I(hp[bm.nodes[i]].support_conditions[1]),
                    B2I(hp[bm.nodes[i]].support_conditions[2])>>])

\* _solve_system's free_dofs: DOF 2i (translation) and 2i+1 (rotation) of the
\* node at position i (0-based) whose restraint flag is false.
FreeDofs(hp, bm) ==
    {2 * (i - 1) : i \in {j \in 1..Len(bm.nodes) : ~hp[bm.nodes[j]].support_conditions[1]}}
    \cup {2 * (i - 1) + 1 : i \in {j \in 1..Len(bm.nodes) : ~hp[bm.nodes[j]].support_conditions[2]}}

\* The DOFs the assembled elements give stiffness to: element e (0-based)
\* connects the nodes at positions e and e+1.
StiffDofs(bm) ==
    UNION {{2 * (e - 1), 2 * (e - 1) + 1, 2 * e, 2 * e + 1} : e \in 1..Len(bm.spans)}

\* Whether the reduced stiffness matrix K[free, free] is singular, for spans
\* of positive length and section (a zero length raises before, see
\* SolveError).  The assembled K of a chain of beam elements is positive
\* semidefinite and its null space is the rigid-body motions v(x) = a + b*x,
\* so the reduced matrix is singular iff a free DOF has no stiffness at all (a
\* zero row) or the restraints of the connected nodes leave a rigid-body
\* motion free: fewer than two restrained translations and not (one restrained
\* translation and a restrained rotation).
SingularReduced(hp, bm) ==
    LET conn == {i \in 1..Len(bm.nodes) : i <= Len(bm.spans) + 1}
        nT == Cardinality({i \in conn : hp[bm.nodes[i]].support_conditions[1]})
        nR == Cardinality({i \in conn : hp[bm.nodes[i]].support_conditions[2]})
    IN  \/ FreeDofs(hp, bm) \ StiffDofs(bm) # {}
        \/ ~(nT >= 2 \/ (nT >= 1 /\ nR >= 1))

\* numpy.linalg.solve raises LinAlgError only when the LU factorisation meets
\* an exactly zero pivot.  A zero row is one whatever the rounding.  So is the
\* unrestrained single element: its translation rows are exact negatives of
\* each other and stay so under elimination.  Any other matrix that is singular
\* through a rigid-body motion is detected or not depending on the rounding of
\* the elimination: the oracle decides.
SingularDetected(hp, bm, orc) ==
    \/ FreeDofs(hp, bm) \ StiffDofs(bm) # {}
    \/ Len(bm.spans) = 1 /\ FreeDofs(hp, bm) = StiffDofs(bm)
    \/ OracleDetects(orc, hp[hp[bm.spans[1]].section].h)

\* The constructor without its validation.
SolverInitUnchecked(bm) == ""

\* MatrixSolver.__init__: the validation error, or "" when construction succeeds.
SolverInitError(bm) ==
    IF bm.nodes = <<>> THEN "ValueError: sem nos" ELSE ""

\* The error solve() raises before _compute_internal_forces, or "" when the
\* linear system is solved: the empty-span validation, a zero span length in
\* E*I/L**3, an element whose DOF indices are outside K_global, the singular
\* matrix.
SolveError(hp, bm, orc) ==
    IF bm.spans = <<>> THEN "ValueError: sem vaos"
    ELSE IF \E e \in 1..Len(bm.spans) :
               /\ hp[bm.spans[e]].length = 0
               /\ e <= Len(bm.nodes)
         THEN "ZeroDivisionError"
    ELSE IF Len(bm.spans) > Len(bm.nodes) - 1 THEN "IndexError"
    ELSE IF SingularReduced(hp, bm) /\ SingularDetected(hp, bm, orc)
         THEN "Exception: Matriz Singular"
    ELSE ""

\* _compute_internal_forces: the four end forces of every span, written in
\* span order.
RECURSIVE ComputeInternalForces(_, _, _, _)
ComputeInternalForces(hp, bm, key, e) ==
    IF e > Len(bm.spans) THEN hp
    ELSE ComputeInternalForces(
             [hp EXCEPT ![bm.spans[e]].shear_left = Sym("shear_left", <<e>> \o key),
                        ![bm.spans[e]].moment_left = Sym("moment_left", <<e>> \o key),
                        ![bm.spans[e]].shear_right = Sym("shear_right", <<e>> \o key),
                        ![bm.spans[e]].moment_right = Sym("moment_right", <<e>> \o key)],
             bm, key, e + 1)

\* solve() with the end forces written before the system is solved.
SolverStageForcesFirst(hp, bm, orc) ==
    LET e1 == SolverInitError(bm)
        e2 == IF e1 # "" THEN e1 ELSE SolveError(hp, bm, orc)
    IN  [heap |-> ComputeInternalForces(hp, bm, SolveKey(hp, bm), 1), err |-> e2]

\* MatrixSolver(beam).solve(): the heap after the call and the error raised
\* ("" for none).  Nothing is written to a span unless the system was solved.
SolverStage(hp, bm, orc) ==
    LET e1 == SolverInitError(bm)
        e2 == IF e1 # "" THEN e1 ELSE SolveError(hp, bm, orc)
    IN  IF e2 # "" THEN [heap |-> hp, err |-> e2]
        ELSE [heap |-> ComputeInternalForces(hp, bm, SolveKey(hp, bm), 1), err |-> ""]

\* ------------------------------------------------------------ ELU design
\* hasattr(obj, name): an object has the attributes its class declares.
HasAttr(obj, name) == name \in DOMAIN obj

\* The effective depth d = h - 4.0 is a divisor in kmd and in Asw/s: the
\* design of a span whose section is 4 cm high raises ZeroDivisionError.
DesignRaises(hp, sa) == hp[hp[sa].section].h - 4 = 0

\* What the design values of a span are computed from.
DesignArgs(hp, sa) ==
    <<hp[hp[sa].section].bw, hp[hp[sa].section].h, hp[sa].length, QDistributed(hp, hp[sa])>>
    \o hp[sa].moment_left.args

\* _design_flexure replaces the span's design_results by a new dict of four
\* keys; _design_shear adds three.
DesignSpan(hp, sa) ==
    LET a == DesignArgs(hp, sa)
    IN  [hp EXCEPT ![sa].design_results =
            [As_sup_esq |-> Sym("As_sup_esq", a), As_sup_dir |-> Sym("As_sup_dir", a),
             As_inf_vao |-> Sym("As_inf_vao", a), Md_max |-> Sym("Md_max", a),
             V_sd |-> Sym("V_sd", a), Asw_s_req |-> Sym("Asw_s_req", a),
             Status_Biela |-> Sym("Status_Biela", a)]]

\* ELUDesignEngine.run_design: spans in order, the first raising span ends the
\* loop and leaves the spans before it designed.
RECURSIVE RunDesignFrom(_, _, _)
RunDesignFrom(hp, bm, e) ==
    IF e > Len(bm.spans) THEN [heap |-> hp, err |-> ""]
    ELSE IF DesignRaises(hp, bm.spans[e]) THEN [heap |-> hp, err |-> "ZeroDivisionError"]
    ELSE RunDesignFrom(DesignSpan(hp, bm.spans[e]), bm, e + 1)

DesignStage(hp, bm) == RunDesignFrom(hp, bm, 1)

\* ------------------------------------------------------------- ELS checker
\* _check_cracking: no crack when the midspan steel read from design_results
\* (0.0 when the key is absent) is negligible; otherwise the computed width
\* against the limit.  A designed span has As_inf_vao >= 0.0015*bw*h > 0.001.
CrackStatus(hp, sa, e, orc) ==
    IF "As_inf_vao" \notin DOMAIN hp[sa].design_results THEN "OK"
    ELSE OracleStatus(orc, "crack", hp[hp[sa].section].h, e)

\* _check_deflection: reads the span's loads, length and section only; without
\* distributed load the deflection is 0.
DeflectionStatus(hp, sa, e, orc) ==
    IF QDistributed(hp, hp[sa]) = 0 THEN "OK"
    ELSE OracleStatus(orc, "defl", hp[hp[sa].section].h, e)

\* Whether run_checks skips the span: the test is on the attribute.
SkipsChecks(hp, sa) == ~HasAttr(hp[sa], "design_results")

CheckSpan(hp, sa, e, orc) ==
    IF SkipsChecks(hp, sa) THEN hp
    ELSE [hp EXCEPT ![sa].els_results =
            [wk_calc |-> Sym("wk", DesignArgs(hp, sa)),
             deflection_total |-> Sym("f_total", DesignArgs(hp, sa)),
             status_crack |-> CrackStatus(hp, sa, e, orc),
             status_deflection |-> DeflectionStatus(hp, sa, e, orc)]]

\* ELSCheckerEngine.run_checks.
RECURSIVE RunChecksFrom(_, _, _, _)
RunChecksFrom(hp, bm, e, orc) ==
    IF e > Len(bm.spans) THEN hp
    ELSE RunChecksFrom(CheckSpan(hp, bm.spans[e], e, orc), bm, e + 1, orc)

ChecksStage(hp, bm, orc) == [heap |-> RunChecksFrom(hp, bm, 1, orc), err |-> ""]

\* ---------------------------------------------------- detailing (step D)
\* The five selections of a span, from the design values read with
\* res.get(key, 0.0) and the section.
DetailSpan(hp, sa) ==
    LET res == hp[sa].design_results
        sec == <<hp[hp[sa].section].bw, hp[hp[sa].section].h>>
        sel(name, key) == Sym(name, sec \o Get(res, key, Zero).args)
    IN  IF ~HasAttr(hp[sa], "design_results") THEN hp
        ELSE [hp EXCEPT ![sa].detailing_results =
                [positive |-> sel("positive", "As_inf_vao"),
                 negative_left |-> sel("negative_left", "As_sup_esq"),
                 negative_right |-> sel("negative_right", "As_sup_dir"),
                 skin |-> Sym("skin", sec),
                 stirrups |-> sel("stirrups", "Asw_s_req")]]

RECURSIVE DetailFrom(_, _, _)
DetailFrom(hp, bm, e) ==
    IF e > Len(bm.spans) THEN hp
    ELSE DetailFrom(DetailSpan(hp, bm.spans[e]), bm, e + 1)

DetailStage(hp, bm) == [heap |-> DetailFrom(hp, bm, 1), err |-> ""]

\* ------------------------------------------------------------------ state
VARIABLES
    heap,      \* the objects, by address
    beams,     \* the beams in memory, in dict order
    oracle,    \* the environment's answers
    built,     \* how the beam under construction got its lists: "add_span" or "raw"
    phase,     \* "build" while the beam is put together, "run" once an engine ran
    pc,        \* position in _process_single_beam: "idle" or the stage to run next
    cur,       \* index in beams of the beam the running call works on
    log,       \* what the last call did, in order: <<step, span index>>
    err,       \* the error the last call raised to its caller ("" for none)
    bi,        \* run_batch_analysis: index of the next beam of the loop (0: no batch)
    results,   \* run_batch_analysis: the ids put into the result dict, in order
    opt,       \* optimize_beam's locals
    sel        \* the last direct call of a span-level function: its arguments and result

vars == <<heap, beams, oracle, built, phase, pc, cur, log, err, bi, results, opt, sel>>

\* optimize_beam is not running; prev is what its last call returned, if any.
OptIdle == [pc |-> "idle", prev |-> None]

\* No span-level function has been called.
NoCall == [fn |-> "none"]

\* Oracles without exceptions to the default verdicts.
PlainOracles ==
    [elsDefault : {"OK"}, detects : BOOLEAN, flips : {{}}]

\* ------------------------------------------------- events of a stage (log)
Stages == <<"solver", "design", "check", "detail">>

SpanEvents(name, n) == [e \in 1..n |-> <<name, e>>]

\* The steps of MatrixSolver(beam).solve() that were entered.
SolverEvents(hp, bm, orc) ==
    LET e1 == SolverInitError(bm)
        e2 == SolveError(hp, bm, orc)
    IN  IF e1 # "" THEN <<>>
        ELSE IF e2 \in {"ValueError: sem vaos"} THEN <<>>
        ELSE IF e2 \in {"ZeroDivisionError", "IndexError"} THEN << <<"assemble_K", 0>> >>
        ELSE << <<"assemble_K", 0>>, <<"assemble_F", 0>>, <<"solve_system", 0>> >>
             \o (IF e2 = "" THEN SpanEvents("forces", Len(bm.spans)) ELSE <<>>)

RECURSIVE DesignedCount(_, _, _)
DesignedCount(hp, bm, e) ==
    IF e > Len(bm.spans) \/ DesignRaises(hp, bm.spans[e]) THEN e - 1
    ELSE DesignedCount(hp, bm, e + 1)

DesignEvents(hp, bm) == SpanEvents("design_results", DesignedCount(hp, bm, 1))

ChecksEvents(hp, bm) ==
    SelectSeq(SpanEvents("els_results", Len(bm.spans)),
              LAMBDA ev : ~SkipsChecks(hp, bm.spans[ev[2]]))

DetailEvents(hp, bm) ==
    SelectSeq(SpanEvents("detailing_results", Len(bm.spans)),
              LAMBDA ev : HasAttr(hp[bm.spans[ev[2]]], "design_results"))

\* One stage of the pipeline on a beam: the heap after it, the error it
\* raised, what it did.
RunStage(stage, hp, bm, orc) ==
    CASE stage = "solver" ->
            [r |-> SolverStage(hp, bm, orc), ev |-> SolverEvents(hp, bm, orc)]
      [] stage = "design" -> [r |-> DesignStage(hp, bm), ev |-> DesignEvents(hp, bm)]
      [] stage = "check" -> [r |-> ChecksStage(hp, bm, orc), ev |-> ChecksEvents(hp, bm)]
      [] stage = "detail" -> [r |-> DetailStage(hp, bm), ev |-> DetailEvents(hp, bm)]

\* The pipeline with the serviceability checks run before the design.
NextStageChecksFirst(stage) ==
    CASE stage = "solver" -> "check"
      [] stage = "check" -> "design"
      [] stage = "design" -> "detail"
      [] stage = "detail" -> "done"

\* _process_single_beam: the stage that follows a stage ("done" after the last).
NextStage(stage) ==
    CASE stage = "solver" -> "design"
      [] stage = "design" -> "check"
      [] stage = "check" -> "detail"
      [] stage = "detail" -> "done"

FirstStage == "solver"

StageIndex(stage) == CHOOSE k \in 1..Len(Stages) : Stages[k] = stage

\* run_batch_analysis, after the try block of one beam: the beam enters the
\* result dict only when its pipeline raised nothing; the loop goes on to the
\* next beam either way.  (BatchFilesEveryBeam: the variant that files the
\* beam whatever happened.)
BatchFilesEveryBeam(res, id, e) == Append(res, id)

BatchAfter(res, id, e) == IF e = "" THEN Append(res, id) ELSE res

BatchLoopAfter(i, e) == i + 1

\* ----------------------------------------------------------- construction
\* span.loads.append(Load(...))
AppendLoad(hp, sa, ld) ==
    [Append(hp, ld) EXCEPT ![sa].loads = Append(hp[sa].loads, Len(hp) + 1)]

RECURSIVE AppendLoads(_, _, _)
AppendLoads(hp, sa, lds) ==
    IF lds = <<>> THEN hp ELSE AppendLoads(AppendLoad(hp, sa, lds[1]), sa, Tail(lds))

\* The self weight the importer gives a span: (bw/100)*(h/100)*25.
SelfWeight(bw, h) == Load("DISTRIBUTED", 5 * bw * h, "Peso Proprio")

\* The loads a client gives a new span, in the importer's order: the self
\* weight or none, then the slab loads.
LoadLists(bw, h) ==
    {pp \o sl : pp \in {<<>>, <<SelfWeight(bw, h)>>},
                sl \in {<<>>} \cup {<<Load("TORSION", v, "Laje")>> : v \in SlabLoads}}

\* A client adds a span: a new section, beam.add_span(...), the span's loads.
ClientAddSpan(length, bw, h, d, ss, es, lds) ==
    /\ phase = "build" /\ built = "add_span"
    /\ Len(beams[1].spans) < MaxSpans
    /\ LET hp1 == Append(heap, Section(bw, h))
           r == add_span(hp1, beams[1], length, Len(hp1), <<0, 0>>, d, ss, es)
       IN  /\ heap' = AppendLoads(r.heap, Last(r.beam.spans), lds)
           /\ beams' = [beams EXCEPT ![1] = r.beam]
    /\ UNCHANGED <<oracle, built, phase, pc, cur, log, err, bi, results, opt, sel>>

AddSpanAct ==
    \E length \in Lengths, bw \in Widths, h \in BuildHeights, d \in Directions,
       ss \in SupportTypes, es \in SupportTypes :
       \E lds \in LoadLists(bw, h) : ClientAddSpan(length, bw, h, d, ss, es, lds)

\* A beam put together through its list fields, without add_span:
\* beam.spans.append(BeamSpan(id, length, section, material)), which leaves the
\* span's node references None and the node list alone.
AppendBareSpanAct ==
    /\ phase = "build"
    /\ Len(beams[1].spans) < MaxSpans
    /\ built = "raw" \/ beams[1].spans = <<>>
    /\ \E length \in Lengths, bw \in Widths, h \in BuildHeights :
          LET hp1 == Append(heap, Section(bw, h))
              hp2 == Append(hp1, BeamSpan(Len(beams[1].spans) + 1, length, Len(hp1), 0, 0))
          IN  /\ heap' = hp2
              /\ beams' = [beams EXCEPT ![1].spans = Append(@, Len(hp2))]
    /\ built' = "raw"
    /\ UNCHANGED <<oracle, phase, pc, cur, log, err, bi, results, opt, sel>>

\* beam.nodes.append(Node(id, x)) on a beam that has no span.
AppendBareNodeAct ==
    /\ phase = "build"
    /\ beams[1].spans = <<>>
    /\ Len(beams[1].nodes) < MaxSpans
    /\ \E ss \in SupportTypes :
          /\ heap' = Append(heap, Node(Len(beams[1].nodes), 0, 0, get_conditions(ss)))
          /\ beams' = [beams EXCEPT ![1].nodes = Append(@, Len(heap) + 1)]
    /\ built' = "raw"
    /\ UNCHANGED <<oracle, phase, pc, cur, log, err, bi, results, opt, sel>>

\* ---------------------------------------------------------------- pipeline
\* A direct call of an engine on the beam: MatrixSolver(beam).solve(),
\* run_checks(beam).
Call(stage) ==
    /\ pc = "idle" /\ bi = 0 /\ opt.pc = "idle"
    /\ LET s == RunStage(stage, heap, beams[1], oracle)
       IN  /\ heap' = s.r.heap
           /\ log' = << <<"call", StageIndex(stage)>> >> \o s.ev
           /\ err' = s.r.err
    /\ phase' = "run"
    /\ cur' = 1
    /\ UNCHANGED <<beams, oracle, built, pc, bi, results, opt, sel>>

CallSolver == Call("solver")
CallChecks == Call("check")

\* controller._process_single_beam(beam) called directly (the editor's update).
ProcessStart ==
    /\ pc = "idle" /\ bi = 0 /\ opt.pc = "idle"
    /\ pc' = FirstStage
    /\ cur' = 1
    /\ log' = <<>>
    /\ err' = ""
    /\ phase' = "run"
    /\ UNCHANGED <<heap, beams, oracle, built, bi, results, opt, sel>>

\* The stage at pc runs on the current beam.  An error, or the end of the last
\* stage, returns to the caller; inside run_batch_analysis the caller then
\* files the beam and moves to the next one.
Step(stage) ==
    /\ pc = stage
    /\ LET s == RunStage(stage, heap, beams[cur], oracle)
           ok == s.r.err = ""
           fin == ~ok \/ NextStage(stage) = "done"
       IN  /\ heap' = s.r.heap
           /\ log' = log \o << <<"begin", StageIndex(stage)>> >> \o s.ev
                         \o (IF ok THEN << <<"end", StageIndex(stage)>> >> ELSE <<>>)
           /\ err' = s.r.err
           /\ pc' = IF fin THEN "idle" ELSE NextStage(stage)
           /\ results' = IF fin /\ bi > 0
                         THEN BatchAfter(results, beams[cur].id, s.r.err) ELSE results
           /\ bi' = IF fin /\ bi > 0 THEN BatchLoopAfter(bi, s.r.err) ELSE bi
    /\ UNCHANGED <<beams, oracle, built, phase, cur, opt, sel>>

StepSolver == Step("solver")
StepDesign == Step("design")
StepCheck == Step("check")
StepDetail == Step("detail")

Pipeline == StepSolver \/ StepDesign \/ StepCheck \/ StepDetail

\* ------------------------------------------------------ Spec: one beam
Init ==
    /\ heap = <<>>
    /\ beams = <<Beam(1)>>
    /\ oracle \in PlainOracles
    /\ built = "add_span"
    /\ phase = "build"
    /\ pc = "idle"
    /\ cur = 0
    /\ log = <<>>
    /\ err = ""
    /\ bi = 0
    /\ results = <<>>
    /\ opt = OptIdle
    /\ sel = NoCall

Next ==
    \/ AddSpanAct
    \/ AppendBareSpanAct
    \/ AppendBareNodeAct
    \/ CallSolver
    \/ CallChecks
    \/ ProcessStart
    \/ Pipeline

Spec == Init /\ [][Next]_vars

\* ------------------------------------------------ properties: topology
\* The beam of Spec, while it has been put together by add_span only.
TheBeam == beams[1]

BuiltByAddSpan == built = "add_span"

NodeIdsPositional(bm) == \A i \in 1..Len(bm.nodes) : heap[bm.nodes[i]].id = i - 1

\* C1 as stated: after any sequence of add_span calls on an empty beam, the
\* empty sequence included, N spans come with N+1 nodes and node i has id i.
C1_AnySequence ==
    BuiltByAddSpan =>
        /\ Len(TheBeam.nodes) = Len(TheBeam.spans) + 1
        /\ NodeIdsPositional(TheBeam)

\* C1, amended: after one or more add_span calls on an empty beam, a beam with
\* N spans has exactly N+1 nodes and the node at index i has id i, for every i
\* in 0..N.  (A beam on which add_span was never called has no node.)
C1_NodeCountAndIds ==
    (BuiltByAddSpan /\ TheBeam.spans # <<>>) =>
        /\ Len(TheBeam.nodes) = Len(TheBeam.spans) + 1
        /\ NodeIdsPositional(TheBeam)

C1_Witness ==
    /\ BuiltByAddSpan
    /\ Len(TheBeam.spans) = MaxSpans
    /\ Len(TheBeam.nodes) = MaxSpans + 1
    /\ heap[Last(TheBeam.nodes)].id = MaxSpans

\* C2: after any sequence of add_span calls, span k starts at the node object
\* at position k of beam.nodes and ends at the one at position k+1 (so the end
\* of a span and the start of the next are one object), which is the pair of
\* nodes the solver's positional DOF indexing gives element k.
C2_SpanNodesPositional ==
    BuiltByAddSpan =>
        /\ \A k \in 1..Len(TheBeam.spans) :
              /\ k + 1 <= Len(TheBeam.nodes)
              /\ heap[TheBeam.spans[k]].start_node = TheBeam.nodes[k]
              /\ heap[TheBeam.spans[k]].end_node = TheBeam.nodes[k + 1]
        /\ \A k \in 1..(Len(TheBeam.spans) - 1) :
              heap[TheBeam.spans[k]].end_node = heap[TheBeam.spans[k + 1]].start_node

C2_Witness ==
    /\ BuiltByAddSpan
    /\ Len(TheBeam.spans) >= 2
    /\ heap[TheBeam.spans[1]].end_node = heap[TheBeam.spans[2]].start_node
    /\ heap[heap[TheBeam.spans[2]].start_node].kind = "Node"

\* ------------------------------------------------ properties: pipeline
\* The positions of an event in the log of the last call.
Positions(ev) == {j \in 1..Len(log) : log[j] = ev}

\* The span field each stage writes, in stage order.
StageWrites == <<"forces", "design_results", "els_results", "detailing_results">>

\* The log is that of a _process_single_beam call (running or returned).
PipelineLog == log # <<>> /\ log[1] = <<"begin", 1>>

\* The log is that of a solve(), called directly or as the pipeline's first stage.
SolverLog == log # <<>> /\ log[1] \in {<<"call", 1>>, <<"begin", 1>>}

SpanForcesUntouched(sa) ==
    /\ heap[sa].moment_left = Zero /\ heap[sa].moment_right = Zero
    /\ heap[sa].shear_left = Zero /\ heap[sa].shear_right = Zero

\* C3: _process_single_beam runs solver, design, checks, detailing in this
\* order and each at most once (exactly once when the call returns without
\* error); a stage begins right after the previous one has ended, having
\* written its field on every span; a span's detailing_results are written
\* only after its forces, its design_results and its els_results.
C3_StagesInOrder ==
    PipelineLog =>
        /\ \A k \in 1..Len(Stages) :
              /\ Cardinality(Positions(<<"begin", k>>)) <= 1
              /\ Cardinality(Positions(<<"end", k>>)) <= 1
              /\ \A j \in Positions(<<"end", k>>) :
                    /\ \E i \in Positions(<<"begin", k>>) : i < j
                    /\ \A e \in 1..Len(beams[cur].spans) :
                          \E w \in Positions(<<StageWrites[k], e>>) : w < j
        /\ \A k \in 2..Len(Stages) :
              \A j \in Positions(<<"begin", k>>) : log[j - 1] = <<"end", k - 1>>
        /\ (pc = "idle" /\ err = "") =>
              \A k \in 1..Len(Stages) :
                 /\ Cardinality(Positions(<<"begin", k>>)) = 1
                 /\ Cardinality(Positions(<<"end", k>>)) = 1
        /\ \A e \in 1..Len(beams[cur].spans) :
              /\ \A j \in Positions(<<"detailing_results", e>>) :
                    \A k \in 1..3 : \E w \in Positions(<<StageWrites[k], e>>) : w < j
              /\ ~IsEmptyDict(heap[beams[cur].spans[e]].detailing_results) =>
                    /\ heap[beams[cur].spans[e]].moment_left # Zero
                    /\ ~IsEmptyDict(heap[beams[cur].spans[e]].design_results)
                    /\ ~IsNone(heap[beams[cur].spans[e]].els_results)

C3_Witness ==
    /\ PipelineLog
    /\ pc = "idle" /\ err = ""
    /\ Len(beams[cur].spans) = 2
    /\ Positions(<<"detailing_results", 2>>) # {}
    /\ ~IsEmptyDict(heap[beams[cur].spans[2]].detailing_results)

\* C4: a beam without nodes is rejected by the solver's constructor and a beam
\* with nodes but without spans by solve(), each with a validation error (a
\* ValueError), before the stiffness assembly is entered and with no force
\* written to any span.
C4_TopologyValidatedFirst ==
    (SolverLog /\ (beams[cur].nodes = <<>> \/ beams[cur].spans = <<>>)) =>
        /\ err = (IF beams[cur].nodes = <<>> THEN "ValueError: sem nos"
                                              ELSE "ValueError: sem vaos")
        /\ Len(log) = 1
        /\ pc = "idle"
        /\ \A e \in 1..Len(beams[cur].spans) : SpanForcesUntouched(beams[cur].spans[e])

C4_Witness ==
    /\ SolverLog
    /\ beams[cur].nodes = <<>>
    /\ beams[cur].spans # <<>>
    /\ err = "ValueError: sem nos"
    /\ SpanForcesUntouched(beams[cur].spans[1])

\* The beam was built by add_span and none of its nodes restrains a DOF.
Unrestrained(bm) ==
    /\ bm.spans # <<>>
    /\ \A i \in 1..Len(bm.nodes) : heap[bm.nodes[i]].support_conditions = <<FALSE, FALSE>>

\* C5 as stated: solve() on a beam in which no node has a restrained DOF fails
\* with the singular-matrix error, which reaches the caller.
C5_UnrestrainedAlwaysRaises ==
    (SolverLog /\ BuiltByAddSpan /\ Unrestrained(beams[cur])) =>
        err = "Exception: Matriz Singular"

\* C6 as stated: run_checks leaves the els_results of a span on which the
\* design has not run (design_results empty) absent.
C6_UndesignedSpanSkipped ==
    (log # <<>> /\ log[1] = <<"call", 3>>) =>
        /\ err = ""
        /\ \A e \in 1..Len(beams[cur].spans) :
              IsEmptyDict(heap[beams[cur].spans[e]].design_results) =>
                  IsNone(heap[beams[cur].spans[e]].els_results)

\* ------------------------------------------- SpecBatch: run_batch_analysis
\* What the importer reads for a beam: a length of 0 when the two end points
\* coincide, a section of any height ("20x4" gives the effective depth 0).
ImportLengths == {0, 5}
ImportHeights == {4, 40}

\* PyLajeImporter.load_beams, one entry of the file: a beam of one span with
\* default (pinned) supports, carrying its self weight.
ImportBeam ==
    /\ phase = "import"
    /\ Len(beams) < MaxBeams
    /\ \E length \in ImportLengths, bw \in Widths, h \in ImportHeights :
          LET hp1 == Append(heap, Section(bw, h))
              r == add_span(hp1, Beam(Len(beams) + 1), length, Len(hp1), <<0, 0>>,
                            <<1, 0>>, "PINNED", "PINNED")
          IN  /\ heap' = AppendLoads(r.heap, Last(r.beam.spans), <<SelfWeight(bw, h)>>)
              /\ beams' = Append(beams, r.beam)
    /\ UNCHANGED <<oracle, built, phase, pc, cur, log, err, bi, results, opt, sel>>

\* run_batch_analysis up to its loop: the beams are loaded, results = {}.
BatchStart ==
    /\ phase = "import"
    /\ phase' = "run"
    /\ bi' = 1
    /\ results' = <<>>
    /\ UNCHANGED <<heap, beams, oracle, built, pc, cur, log, err, opt, sel>>

\* The loop takes the next beam and enters _process_single_beam.
BatchBeam ==
    /\ phase = "run" /\ pc = "idle"
    /\ bi \in 1..Len(beams)
    /\ cur' = bi
    /\ pc' = FirstStage
    /\ log' = Append(log, <<"beam", bi>>)
    /\ err' = ""
    /\ UNCHANGED <<heap, beams, oracle, built, phase, bi, results, opt, sel>>

InitBatch ==
    /\ heap = <<>>
    /\ beams = <<>>
    /\ oracle = [elsDefault |-> "OK", detects |-> TRUE, flips |-> {}]
    /\ built = "add_span"
    /\ phase = "import"
    /\ pc = "idle"
    /\ cur = 0
    /\ log = <<>>
    /\ err = ""
    /\ bi = 0
    /\ results = <<>>
    /\ opt = OptIdle
    /\ sel = NoCall

NextBatch ==
    \/ ImportBeam
    \/ BatchStart
    \/ BatchBeam
    \/ Pipeline

SpecBatch == InitBatch /\ [][NextBatch]_vars

\* --------------------------------------------------- properties: batch
\* The part of the log that belongs to the i-th beam of the batch.
BeamSegment(i) ==
    {j \in 1..Len(log) :
        /\ \E b \in Positions(<<"beam", i>>) : b < j
        /\ \A b \in Positions(<<"beam", i + 1>>) : j < b}

\* The i-th beam's pipeline ran to the end of its last stage.
CompletedPipeline(i) == \E j \in BeamSegment(i) : log[j] = <<"end", Len(Stages)>>

\* The i-th beam's pipeline was entered and has returned.
Processed(i) == i < bi

BatchReturned == phase = "run" /\ bi = Len(beams) + 1

\* C7: in run_batch_analysis an error in one beam's pipeline does not stop the
\* loop (every beam's pipeline is entered), and the returned mapping holds
\* exactly the beams whose pipeline completed without error.
C7_BatchKeepsGoing ==
    /\ \A i \in 1..Len(beams) :
          Processed(i) =>
             /\ Positions(<<"beam", i>>) # {}
             /\ beams[i].id \in Range(results) <=> CompletedPipeline(i)
    /\ Range(results) \subseteq {beams[i].id : i \in {k \in 1..Len(beams) : Processed(k)}}
    /\ Cardinality(Range(results)) = Len(results)
    /\ BatchReturned => \A i \in 1..Len(beams) : Positions(<<"beam", i>>) # {}

C7_Witness ==
    /\ BatchReturned
    /\ Len(beams) = 3
    /\ results = <<beams[1].id, beams[3].id>>
    /\ ~CompletedPipeline(2)
    /\ CompletedPipeline(3)

\* ------------------------------------------------- optimizer (functions)
cost_concrete_m3 == 450
cost_steel_kg == 12
cost_formwork_m2 == 80

\* The cost given to a trial that is not valid.
SentinelCost == 99999

\* test_heights = range(30, 85, 5)
test_heights == [k \in 1..11 |-> 30 + 5 * (k - 1)]

\* The objects reachable from a beam, in address order.
Reachable(hp, bm) ==
    (Range(bm.nodes) \cup Range(bm.spans)
     \cup UNION {{hp[sa].section, hp[sa].start_node, hp[sa].end_node} \cup Range(hp[sa].loads)
                 : sa \in Range(bm.spans)}) \ {0}

RECURSIVE SortedSeq(_)
SortedSeq(S) ==
    IF S = {} THEN <<>>
    ELSE LET m == CHOOSE x \in S : \A y \in S : x <= y
         IN  <<m>> \o SortedSeq(S \ {m})

\* copy.copy(beam): a new Beam holding the same lists and objects.
ShallowCopy(hp, bm) == [heap |-> hp, beam |-> bm]

\* copy.deepcopy(beam): every reachable object is copied once (sharing among
\* the copies is that among the originals) and the copies refer to copies.
DeepCopy(hp, bm) ==
    LET olds == SortedSeq(Reachable(hp, bm))
        Reloc(a) == IF a = 0 THEN 0
                    ELSE Len(hp) + (CHOOSE i \in 1..Len(olds) : olds[i] = a)
        CopyObj(o) ==
            IF o.kind = "BeamSpan"
            THEN [o EXCEPT !.section = Reloc(@),
                           !.loads = [i \in 1..Len(@) |-> Reloc(@[i])],
                           !.start_node = Reloc(@),
                           !.end_node = Reloc(@)]
            ELSE o
    IN  [heap |-> hp \o [i \in 1..Len(olds) |-> CopyObj(hp[olds[i]])],
         beam |-> [bm EXCEPT !.spans = [i \in 1..Len(@) |-> Reloc(@[i])],
                             !.nodes = [i \in 1..Len(@) |-> Reloc(@[i])]]]

\* The update with the test of the load's source left out: every load of the
\* span gets the self-weight value.
RECURSIVE UpdateEveryLoad(_, _, _)
UpdateEveryLoad(hp, sa, k) ==
    IF k > Len(hp[sa].loads) THEN hp
    ELSE LET la == hp[sa].loads[k]
             sec == hp[hp[sa].section]
         IN  UpdateEveryLoad([hp EXCEPT ![la].value = 5 * sec.bw * sec.h], sa, k + 1)

\* The self-weight loads of a span get the value (bw/100)*(h/100)*25 of the
\* span's section.
RECURSIVE UpdateSelfWeight(_, _, _)
UpdateSelfWeight(hp, sa, k) ==
    IF k > Len(hp[sa].loads) THEN hp
    ELSE LET la == hp[sa].loads[k]
             sec == hp[hp[sa].section]
         IN  UpdateSelfWeight(
                 IF hp[la].source = "Peso Proprio"
                 THEN [hp EXCEPT ![la].value = 5 * sec.bw * sec.h]
                 ELSE hp,
                 sa, k + 1)

\* Step 2 of a trial: every span's section gets the candidate height and its
\* self weight is recomputed.
RECURSIVE ApplyGeometry(_, _, _, _)
ApplyGeometry(hp, bm, h_test, e) ==
    IF e > Len(bm.spans) THEN hp
    ELSE LET sa == bm.spans[e]
             hp1 == [hp EXCEPT ![hp[sa].section].h = h_test]
         IN  ApplyGeometry(UpdateSelfWeight(hp1, sa, 1), bm, h_test, e + 1)

\* The validity test of a trial with the deflection status left out.
ValidDesignCrackOnly(hp, bm) ==
    \A e \in 1..Len(bm.spans) : hp[bm.spans[e]].els_results.status_crack = "OK"

\* valid_design after the loop over the trial's spans: no span has a crack or
\* deflection status other than "OK".
ValidDesign(hp, bm) ==
    \A e \in 1..Len(bm.spans) :
       /\ hp[bm.spans[e]].els_results.status_crack = "OK"
       /\ hp[bm.spans[e]].els_results.status_deflection = "OK"

\* Quantities of a valid trial, with the web width of the first span and the
\* candidate height for every span: concrete in 1e-4 m3, formwork in 1e-2 m2.
TotalLength(hp, bm) == SumSeq([e \in 1..Len(bm.spans) |-> hp[bm.spans[e]].length])

ConcVol(hp, bm, bw, h_test) == bw * h_test * TotalLength(hp, bm)

FormArea(hp, bm, bw, h_test) == (2 * h_test + bw) * TotalLength(hp, bm)

\* round(total_cost, 2), in cents.
TotalCost(hp, bm, bw, h_test, steel_kg) ==
    (cost_concrete_m3 * ConcVol(hp, bm, bw, h_test)) \div 100
    + cost_steel_kg * steel_kg * 100
    + cost_formwork_m2 * FormArea(hp, bm, bw, h_test)

\* One iteration of the loop over the candidates: the trial beam is copied
\* from the original, resized, run through solver, design and checks, and
\* measured.  Gives the heap after the iteration, the entry appended to
\* results, and what happened in the trial (the error raised inside the try
\* block, the statuses run_checks wrote to the trial's spans).
Trial(hp, bm, orc, h_test, bw) ==
    LET c == DeepCopy(hp, bm)
        tb == c.beam
        hp1 == ApplyGeometry(c.heap, tb, h_test, 1)
        s == SolverStage(hp1, tb, orc)
        d == DesignStage(s.heap, tb)
        k == ChecksStage(d.heap, tb, orc)
        e == IF s.err # "" THEN s.err
             ELSE IF d.err # "" THEN d.err
             ELSE IF \E i \in 1..Len(tb.spans) : IsNone(k.heap[tb.spans[i]].els_results)
                  THEN "AttributeError"
             ELSE ""
        after == IF s.err # "" THEN s.heap ELSE IF d.err # "" THEN d.heap ELSE k.heap
        steel == OracleSteelKg(orc, h_test)
    IN  [heap |-> after,
         seen |-> [err |-> e,
                   els |-> IF e # "" THEN <<>>
                           ELSE [i \in 1..Len(tb.spans) |->
                                   <<k.heap[tb.spans[i]].els_results.status_crack,
                                     k.heap[tb.spans[i]].els_results.status_deflection>>]],
         entry |->
            IF e # "" THEN [h |-> h_test, status |-> "Erro Calc", cost |-> SentinelCost * 100]
            ELSE IF ~ValidDesign(k.heap, tb)
                 THEN [h |-> h_test, status |-> "Falha ELS", cost |-> SentinelCost * 100]
            ELSE [h |-> h_test, status |-> "OK",
                  cost |-> TotalCost(k.heap, tb, bw, h_test, steel),
                  steel_kg |-> steel,
                  conc_m3 |-> ConcVol(k.heap, tb, bw, h_test),
                  as_pos |-> Get(k.heap[Last(tb.spans)].design_results, "As_inf_vao", Zero)]]

\* The loop with an error of a trial ending the search.
NextCandidateUnlessError(k, e) == IF e # "" THEN Len(test_heights) + 1 ELSE k + 1

\* The loop goes on to the next candidate whatever the trial did.
NextCandidate(k, e) == k + 1

\* The selection with the last entry of least cost taken.
MinCostLast(rs) ==
    rs[CHOOSE i \in 1..Len(rs) :
          \A j \in 1..Len(rs) : rs[i].cost < rs[j].cost \/ (rs[i].cost = rs[j].cost /\ i >= j)]

\* min(valid_results, key=cost): the first entry of least cost.
MinCostFirst(rs) ==
    rs[CHOOSE i \in 1..Len(rs) :
          \A j \in 1..Len(rs) : rs[i].cost < rs[j].cost \/ (rs[i].cost = rs[j].cost /\ i <= j)]

\* next((r for r in results if r["h"] == h_orig), None)
OriginalRes(rs, h_orig) ==
    IF \E i \in 1..Len(rs) : rs[i].h = h_orig
    THEN rs[CHOOSE i \in 1..Len(rs) : rs[i].h = h_orig /\ \A j \in 1..(i - 1) : rs[j].h # h_orig]
    ELSE None

\* The result without the no-feasible-section branch: the cheapest entry of
\* the whole list stands in when no trial is valid.
ReportAlwaysBest(rs, h_orig) ==
    LET valid_results == SelectSeq(rs, LAMBDA r : r.status = "OK")
        best == MinCostFirst(IF valid_results = <<>> THEN rs ELSE valid_results)
    IN  [original |-> OriginalRes(rs, h_orig), best |-> best, all_trials |-> rs,
         recommendation |-> [text |-> "Manter secao atual."]]

\* What optimize_beam returns for a list of trial entries.
Report(rs, h_orig) ==
    LET valid_results == SelectSeq(rs, LAMBDA r : r.status = "OK")
        best == MinCostFirst(valid_results)
        original_res == OriginalRes(rs, h_orig)
    IN  IF valid_results = <<>> THEN [error |-> "Nenhuma secao viavel encontrada."]
        ELSE [original |-> original_res,
              best |-> best,
              all_trials |-> rs,
              recommendation |->
                 IF ~IsNone(original_res) /\ best.h # h_orig
                 THEN [text |-> "Alterar", from |-> h_orig, to |-> best.h,
                       saving |-> original_res.cost - best.cost]
                 ELSE [text |-> "Manter secao atual."]]

\* ------------------------------------------------ SpecOpt: optimize_beam
\* The heights at which the environment's answers may differ from its default.
AnomalyHeights == {30, 35}

AnomalyKeys ==
    {<<w, h, i>> : w \in {"crack", "defl"}, h \in AnomalyHeights, i \in 1..MaxSpans}
    \cup {<<w, h, 0>> : w \in {"lapack", "steel"}, h \in AnomalyHeights}

\* Oracles with at most two exceptions to the default answers.
OptOracles ==
    [elsDefault : {"OK", "FALHA"}, detects : BOOLEAN,
     flips : {{a, b} : a \in AnomalyKeys, b \in AnomalyKeys} \cup {{}}]

\* Span lengths of the beams to optimize.  With 12 m spans the cost of one
\* height step is a whole number of kilograms of steel, so that two trials can
\* cost the same.
OptLengths == {12}

\* The client builds the beam to optimize: spans of one section, each carrying
\* its self weight, pinned or free at both ends.
OptAddSpanOf(heights) ==
    \E length \in OptLengths, bw \in Widths, sup \in {"PINNED", "FREE"},
       h \in IF beams[1].spans = <<>> THEN heights
             ELSE {heap[heap[beams[1].spans[1]].section].h} :
       ClientAddSpan(length, bw, h, <<1, 0>>, sup, sup, <<SelfWeight(bw, h)>>)

OptAddSpan == OptAddSpanOf(BuildHeights)

\* Section heights on and off the optimizer's 5 cm stride.
OptHeights == {40, 42}

OptAddSpanAnyHeight == OptAddSpanOf(OptHeights)

\* optimize_beam(original_beam) up to its loop: spans[0] is read for h_orig
\* and bw (an IndexError on a beam without spans), results = [].
OptStart ==
    /\ pc = "idle" /\ bi = 0 /\ opt.pc = "idle"
    /\ IF beams[1].spans = <<>>
       THEN /\ opt' = [pc |-> "raised", prev |-> opt.prev]
            /\ err' = "IndexError"
       ELSE /\ opt' = [pc |-> "loop", k |-> 1, results |-> <<>>, seen |-> <<>>,
                       h_orig |-> heap[heap[beams[1].spans[1]].section].h,
                       bw |-> heap[heap[beams[1].spans[1]].section].bw,
                       heap0 |-> heap, beam0 |-> beams[1], report |-> None,
                       prev |-> opt.prev]
            /\ err' = ""
    /\ phase' = "run"
    /\ UNCHANGED <<heap, beams, oracle, built, pc, cur, log, bi, results, sel>>

\* One iteration of the loop; the trial beam is garbage after it.
TrialStep ==
    /\ opt.pc = "loop"
    /\ opt.k <= Len(test_heights)
    /\ LET t == Trial(heap, beams[1], oracle, test_heights[opt.k], opt.bw)
           k2 == NextCandidate(opt.k, t.seen.err)
       IN  /\ heap' = SubSeq(t.heap, 1, Len(heap))
           /\ opt' = [opt EXCEPT !.results = Append(@, t.entry),
                                 !.seen = Append(@, t.seen),
                                 !.k = k2,
                                 !.pc = IF k2 > Len(test_heights) THEN "select" ELSE "loop"]
    /\ UNCHANGED <<beams, oracle, built, phase, pc, cur, log, err, bi, results, sel>>

\* After the loop: the best valid trial and the report, or the error result.
Select ==
    /\ opt.pc = "select"
    /\ opt' = [opt EXCEPT !.pc = "done", !.report = Report(opt.results, opt.h_orig)]
    /\ UNCHANGED <<heap, beams, oracle, built, phase, pc, cur, log, err, bi, results, sel>>

InitOpt ==
    /\ heap = <<>>
    /\ beams = <<Beam(1)>>
    /\ oracle \in OptOracles
    /\ built = "add_span"
    /\ phase = "build"
    /\ pc = "idle"
    /\ cur = 0
    /\ log = <<>>
    /\ err = ""
    /\ bi = 0
    /\ results = <<>>
    /\ opt = OptIdle
    /\ sel = NoCall

NextOpt ==
    \/ OptAddSpan
    \/ ProcessStart
    \/ Pipeline
    \/ OptStart
    \/ TrialStep
    \/ Select

SpecOpt == InitOpt /\ [][NextOpt]_vars

\* ------------------------------------------------ properties: optimizer
OptRunning == opt.pc \in {"loop", "select", "done"}

OptReturned == opt.pc = "done"

\* The statuses among the entries of the trial list.
TrialStatuses == {opt.results[i].status : i \in 1..Len(opt.results)}

\* C8: optimize_beam never mutates the original beam: during and after the
\* call every object of the original (sections, loads, spans with their forces
\* and results, nodes) and the beam's lists are what they were before the
\* call, whatever the trials do.
C8_OriginalUntouched ==
    OptRunning =>
        /\ beams[1] = opt.beam0
        /\ heap = opt.heap0

C8_Witness ==
    /\ OptReturned
    /\ TrialStatuses = {"OK", "Falha ELS", "Erro Calc"}
    /\ Len(beams[1].spans) = 2
    /\ ~IsEmptyDict(heap[beams[1].spans[1]].design_results)
    /\ heap[heap[beams[1].spans[1]].section].h = opt.h_orig

\* C9: the trial list has exactly one entry per candidate height 30, 35, ...,
\* 80, in ascending order; a trial that raised gives an entry with an error
\* status and the cost 99999, and the candidates after it are still tried.
C9_OneEntryPerCandidate ==
    OptRunning =>
        /\ test_heights = <<30, 35, 40, 45, 50, 55, 60, 65, 70, 75, 80>>
        /\ Len(opt.results) = Len(opt.seen)
        /\ opt.pc = "loop" => Len(opt.results) = opt.k - 1
        /\ opt.pc \in {"select", "done"} => Len(opt.results) = Len(test_heights)
        /\ \A i \in 1..Len(opt.results) :
              /\ opt.results[i].h = test_heights[i]
              /\ opt.seen[i].err # "" =>
                    /\ opt.results[i].status = "Erro Calc"
                    /\ opt.results[i].cost = 99999 * 100

C9_Witness ==
    /\ OptReturned
    /\ Len(opt.results) = 11
    /\ opt.seen[1].err # ""
    /\ opt.results[1].status = "Erro Calc"
    /\ opt.seen[2].err = ""
    /\ opt.results[2].status = "OK"
    /\ opt.seen[3].err # ""

\* The trials whose pipeline raised nothing and whose spans all passed the
\* crack-width and the deflection check, by what the trial's engines did.
ValidTrials ==
    {i \in 1..Len(opt.results) :
        /\ opt.seen[i].err = ""
        /\ \A e \in 1..Len(opt.seen[i].els) : opt.seen[i].els[e] = <<"OK", "OK">>}

\* C10: the best candidate of the report is a valid trial of least cost among
\* the valid trials, where a trial is valid (status OK) iff its pipeline raised
\* no error and every span passed both serviceability checks; a trial in which
\* a span failed a check is never the best.
C10_BestAmongValid ==
    OptRunning =>
        /\ \A i \in 1..Len(opt.results) : opt.results[i].status = "OK" <=> i \in ValidTrials
        /\ (OptReturned /\ "best" \in DOMAIN opt.report) =>
              \E i \in ValidTrials :
                 /\ opt.report.best = opt.results[i]
                 /\ \A j \in ValidTrials : opt.results[i].cost <= opt.results[j].cost

C10_Witness ==
    /\ OptReturned
    /\ "best" \in DOMAIN opt.report
    /\ opt.seen[1].err = ""
    /\ opt.seen[1].els = << <<"OK", "OK">>, <<"OK", "FALHA">> >>
    /\ opt.results[1].status = "Falha ELS"
    /\ opt.report.best.h > opt.results[1].h
    /\ opt.report.best.status = "OK"

\* C11: when no trial is valid optimize_beam returns the error result, which
\* carries the no-feasible-section message and nothing else (no best, original,
\* trial list or recommendation); when a trial is valid the result is a report
\* with a best candidate, never the error result.
C11_NoFeasibleIsError ==
    OptReturned =>
        /\ ValidTrials = {} => DOMAIN opt.report = {"error"}
        /\ ValidTrials # {} =>
              DOMAIN opt.report = {"original", "best", "all_trials", "recommendation"}

C11_Witness ==
    /\ OptReturned
    /\ Len(opt.results) = Len(test_heights)
    /\ ValidTrials = {}
    /\ opt.report = [error |-> "Nenhuma secao viavel encontrada."]
    /\ "Falha ELS" \in TrialStatuses

\* ------------------------------------- SpecOptTwice: optimize_beam, twice
\* Oracles with at most one exception to the default answers.
OptOraclesOne ==
    [elsDefault : {"OK", "FALHA"}, detects : BOOLEAN,
     flips : {{a} : a \in AnomalyKeys} \cup {{}}]

\* The caller takes the result of the first call; the beam stays in memory.
OptClose ==
    /\ opt.pc = "done"
    /\ IsNone(opt.prev)
    /\ opt' = [pc |-> "idle", prev |-> [results |-> opt.results, report |-> opt.report]]
    /\ UNCHANGED <<heap, beams, oracle, built, phase, pc, cur, log, err, bi, results, sel>>

InitOptTwice ==
    /\ heap = <<>>
    /\ beams = <<Beam(1)>>
    /\ oracle \in OptOraclesOne
    /\ built = "add_span"
    /\ phase = "build"
    /\ pc = "idle"
    /\ cur = 0
    /\ log = <<>>
    /\ err = ""
    /\ bi = 0
    /\ results = <<>>
    /\ opt = OptIdle
    /\ sel = NoCall

NextOptTwice ==
    \/ OptAddSpanAnyHeight
    \/ ProcessStart
    \/ Pipeline
    \/ OptStart
    \/ TrialStep
    \/ Select
    \/ OptClose

SpecOptTwice == InitOptTwice /\ [][NextOptTwice]_vars

\* What a caller compares of two results: the error result, or the best
\* candidate's height and cost.
BestOf(report) ==
    IF "best" \in DOMAIN report THEN <<"best", report.best.h, report.best.cost>>
    ELSE <<"error", 0, 0>>

\* C12: a second optimize_beam call on the same beam (analysed in between or
\* not) returns the same trial list and the same best height and cost as the
\* first; among valid trials of equal least cost the lowest height is the best.
C12_Deterministic ==
    (OptReturned /\ ~IsNone(opt.prev)) =>
        /\ opt.results = opt.prev.results
        /\ BestOf(opt.report) = BestOf(opt.prev.report)
        /\ "best" \in DOMAIN opt.report =>
              \A j \in ValidTrials :
                 opt.results[j].cost = opt.report.best.cost =>
                    opt.report.best.h <= opt.results[j].h

C12_Witness ==
    /\ OptReturned /\ ~IsNone(opt.prev)
    /\ "best" \in DOMAIN opt.report
    /\ opt.report.best.h = 30
    /\ opt.results[2].status = "OK"
    /\ opt.results[2].cost = opt.report.best.cost
    /\ ~IsEmptyDict(heap[beams[1].spans[1]].design_results)
    /\ Len(opt.prev.results) = Len(test_heights)

\* C13 as stated: a report with a best candidate carries the result computed
\* for the beam's original section height, whatever that height is (also when
\* its trial is invalid, also when it is not one of 30, 35, ..., 80).
C13_OriginalAlwaysReported ==
    (OptReturned /\ "best" \in DOMAIN opt.report) =>
        /\ ~IsNone(opt.report.original)
        /\ opt.report.original.h = opt.h_orig

\* ------------------------- SpecOptSections: optimize_beam, spans that differ
\* The client builds a beam whose spans have their own web width and their
\* own loads: the self weight, and with it or instead of it a slab load.
OptAddSpanOwnSection ==
    \E bw \in {15, 20}, slab \in BOOLEAN, pp \in BOOLEAN :
       /\ slab \/ pp
       /\ ClientAddSpan(12, bw, 40, <<1, 0>>, "PINNED", "PINNED",
              (IF pp THEN <<SelfWeight(bw, 40)>> ELSE <<>>)
              \o (IF slab THEN <<Load("DISTRIBUTED", 30000, "Laje")>> ELSE <<>>))

NextOptSections ==
    \/ OptAddSpanOwnSection
    \/ OptStart
    \/ TrialStep
    \/ Select

SpecOptSections == InitOptTwice /\ [][NextOptSections]_vars

\* The sum of f over the spans of the original beam.
OverSpans(f(_, _)) ==
    SumSeq([e \in 1..Len(beams[1].spans) |->
              f(heap[heap[beams[1].spans[e]].section].bw, heap[beams[1].spans[e]].length)])

\* C24: for every valid trial at candidate height h the reported cost is
\* 450 * concrete volume + 12 * steel mass + 80 * formwork area, the volume
\* being the sum over the spans of that span's web width * h * length and the
\* formwork the sum over the spans of (2h + that span's web width) * length,
\* also for beams whose spans have different web widths.
C24_CostFromEachSpansWidth ==
    OptRunning =>
        \A i \in 1..Len(opt.results) :
            opt.results[i].status = "OK" =>
                LET h == opt.results[i].h
                    Volume(bw, length) == bw * h * length
                    Formwork(bw, length) == (2 * h + bw) * length
                IN  opt.results[i].cost =
                        (450 * OverSpans(Volume)) \div 100
                        + 12 * opt.results[i].steel_kg * 100
                        + 80 * OverSpans(Formwork)

\* The trial beam of the candidate the loop is about to try, after step 2
\* (copy, new geometry) and before the engines run.
TrialAt(hp, bm, h_test) ==
    LET c == DeepCopy(hp, bm)
    IN  [heap |-> ApplyGeometry(c.heap, c.beam, h_test, 1), beam |-> c.beam]

AboutToTry == opt.pc = "loop" /\ opt.k <= Len(test_heights)

\* C25: in every trial at candidate height h, before the pipeline runs, every
\* span of the trial beam has section height h and its self-weight load is
\* density * width * height (25 kN/m3 * bw * h), and every other load of the
\* trial beam has the value it has in the original beam.
C25_TrialGeometry ==
    AboutToTry =>
        LET h == test_heights[opt.k]
            t == TrialAt(heap, beams[1], h)
        IN  /\ Len(t.beam.spans) = Len(beams[1].spans)
            /\ \A e \in 1..Len(t.beam.spans) :
                  LET span == t.heap[t.beam.spans[e]]
                      orig == heap[beams[1].spans[e]]
                  IN  /\ t.heap[span.section].h = h
                      /\ t.heap[span.section].bw = heap[orig.section].bw
                      /\ Len(span.loads) = Len(orig.loads)
                      /\ \A j \in 1..Len(span.loads) :
                            /\ t.heap[span.loads[j]].source = heap[orig.loads[j]].source
                            /\ t.heap[span.loads[j]].load_type = heap[orig.loads[j]].load_type
                            /\ t.heap[span.loads[j]].value =
                                  IF heap[orig.loads[j]].source = "Peso Proprio"
                                  THEN 5 * heap[orig.section].bw * h
                                  ELSE heap[orig.loads[j]].value

C25_Witness ==
    /\ AboutToTry
    /\ opt.k = 3
    /\ Len(beams[1].spans) = 2
    /\ heap[heap[beams[1].spans[1]].section].bw = 20
    /\ heap[heap[beams[1].spans[2]].section].bw = 15
    /\ Len(heap[beams[1].spans[1]].loads) = 2
    /\ heap[heap[beams[1].spans[2]].loads[1]].source = "Laje"
    /\ LET t == TrialAt(heap, beams[1], 40)
       IN  /\ t.heap[t.heap[t.beam.spans[1]].loads[1]].value = 5 * 20 * 40
           /\ t.heap[t.heap[t.beam.spans[1]].loads[2]].value = 30000

\* C26: a trial beam is a fully independent copy that keeps the topology of
\* the continuous beam: the end node of span k and the start node of span k+1
\* are one node, an entry of the trial beam's own node list, and no node,
\* span, section or load of the trial beam is an object of the original beam
\* or of another trial's beam.
C26_TrialIndependentCopy ==
    AboutToTry =>
        LET t == TrialAt(heap, beams[1], test_heights[opt.k])
            other == TrialAt(t.heap, beams[1], test_heights[opt.k])
            mine == Reachable(t.heap, t.beam)
        IN  /\ \A e \in 1..Len(t.beam.spans) :
                  /\ t.heap[t.beam.spans[e]].start_node = t.beam.nodes[e]
                  /\ t.heap[t.beam.spans[e]].end_node = t.beam.nodes[e + 1]
                  /\ e > 1 => t.heap[t.beam.spans[e]].start_node
                                 = t.heap[t.beam.spans[e - 1]].end_node
            /\ Len(t.beam.nodes) = Len(t.beam.spans) + 1
            /\ \A a, b \in 1..Len(t.beam.nodes) :
                  t.beam.nodes[a] = t.beam.nodes[b] => a = b
            /\ mine \cap Reachable(heap, beams[1]) = {}
            /\ mine \cap (1..Len(heap)) = {}
            /\ mine \cap Reachable(other.heap, other.beam) = {}
            /\ Cardinality(mine) = Cardinality(Reachable(heap, beams[1]))

C26_Witness ==
    /\ AboutToTry
    /\ opt.k = 2
    /\ Len(opt.results) = 1
    /\ Len(beams[1].spans) = 2
    /\ LET t == TrialAt(heap, beams[1], test_heights[opt.k])
       IN  /\ t.heap[t.beam.spans[1]].end_node = t.heap[t.beam.spans[2]].start_node
           /\ t.heap[t.beam.spans[1]].end_node > Len(heap)
           /\ t.heap[t.heap[t.beam.spans[2]].section].h = 35

\* ------------------------------------------------ properties: add_span again
\* C28: add_span never loosens the restraint of an existing node: appending a
\* span to a non-empty beam makes the junction node's flags (true, true) when
\* the new span's start support is FIXED and leaves them as they are otherwise
\* (a PINNED or FREE start support of a later span is ignored); the flags and
\* the coordinates of all earlier nodes, and the junction's coordinates, stay.
C28_AddSpanNeverLoosens ==
    (BuiltByAddSpan /\ TheBeam.spans # <<>>) =>
        \A ss \in SupportTypes, es \in SupportTypes, d \in Directions, length \in Lengths :
            LET r == add_span(Append(heap, Section(20, 40)), TheBeam, length,
                              Len(heap) + 1, <<0, 0>>, d, ss, es)
                n == Len(TheBeam.nodes)
                junction == TheBeam.nodes[n]
            IN  /\ SubSeq(r.beam.nodes, 1, n) = TheBeam.nodes
                /\ r.heap[junction].support_conditions =
                      IF ss = "FIXED" THEN <<TRUE, TRUE>>
                      ELSE heap[junction].support_conditions
                /\ \A i \in 1..n :
                      /\ r.heap[TheBeam.nodes[i]].x = heap[TheBeam.nodes[i]].x
                      /\ r.heap[TheBeam.nodes[i]].y = heap[TheBeam.nodes[i]].y
                      /\ r.heap[TheBeam.nodes[i]].id = heap[TheBeam.nodes[i]].id
                      /\ i < n => r.heap[TheBeam.nodes[i]].support_conditions
                                     = heap[TheBeam.nodes[i]].support_conditions
                      /\ \A c \in 1..2 :
                            heap[TheBeam.nodes[i]].support_conditions[c]
                               => r.heap[TheBeam.nodes[i]].support_conditions[c]

\* Two spans were added, the second one starting FIXED on a free end; a third
\* span starting FREE would leave the pinned end of the second as it is.
C28_Witness ==
    /\ BuiltByAddSpan
    /\ Len(TheBeam.spans) = 2
    /\ heap[TheBeam.nodes[1]].support_conditions = <<FALSE, FALSE>>
    /\ heap[TheBeam.nodes[2]].support_conditions = <<TRUE, TRUE>>
    /\ heap[TheBeam.nodes[3]].support_conditions = <<TRUE, FALSE>>
    /\ LET r == add_span(Append(heap, Section(20, 40)), TheBeam, 5,
                         Len(heap) + 1, <<0, 0>>, <<1, 0>>, "FREE", "FREE")
       IN  /\ r.heap[TheBeam.nodes[3]].support_conditions = <<TRUE, FALSE>>
           /\ Len(r.beam.nodes) = 4

\* ------------------------------------- SpecResolve: solve, change, solve again
\* beam.spans.append(BeamSpan(...)) on a beam that has been analysed: the new
\* span has no nodes and the beam's node list stays as it is.
AppendSpanAfterRun ==
    /\ phase = "run" /\ pc = "idle"
    /\ Len(beams[1].spans) < MaxSpans
    /\ \E length \in Lengths, bw \in Widths, h \in BuildHeights :
          LET hp1 == Append(heap, Section(bw, h))
              hp2 == Append(hp1, BeamSpan(Len(beams[1].spans) + 1, length, Len(hp1), 0, 0))
          IN  /\ heap' = hp2
              /\ beams' = [beams EXCEPT ![1].spans = Append(@, Len(hp2))]
    /\ built' = "raw"
    /\ UNCHANGED <<oracle, phase, pc, cur, log, err, bi, results, opt, sel>>

NextResolve ==
    \/ AddSpanAct
    \/ CallSolver
    \/ AppendSpanAfterRun

SpecResolve == Init /\ [][NextResolve]_vars

\* The four end forces of every span of a beam.
ForcesOf(hp, bm) ==
    [e \in 1..Len(bm.spans) |->
        <<hp[bm.spans[e]].shear_left, hp[bm.spans[e]].shear_right,
          hp[bm.spans[e]].moment_left, hp[bm.spans[e]].moment_right>>]

\* C27: when MatrixSolver construction or solve() fails (missing topology,
\* singular matrix) no span is modified: shear_left, shear_right, moment_left
\* and moment_right of every span keep the values they had before the call.
C27_FailedSolveWritesNothing ==
    [][(/\ beams' = beams
        /\ log' # <<>> /\ log'[1] = <<"call", 1>>
        /\ err' # "")
       => ForcesOf(heap', beams'[1]) = ForcesOf(heap, beams[1])]_vars

C27_Witness ==
    /\ log # <<>> /\ log[1] = <<"call", 1>>
    /\ err = "IndexError"
    /\ Len(beams[1].spans) = 2
    /\ heap[beams[1].spans[1]].shear_left # Zero
    /\ heap[beams[1].spans[1]].moment_right # Zero
    /\ SpanForcesUntouched(beams[1].spans[2])

\* ----------------------------------------------------------- bar selector
\* Lengths of the selector are kept in tenths of a millimetre and steel areas
\* in units of pi/40000 cm2, which makes the area of a bar of diameter phi the
\* integer phi*phi and the arithmetic of the selections exact.
longitudinal_bars == <<80, 100, 125, 160, 200, 250>>

transversal_bars == <<50, 63, 80, 100>>

AreaBar(phi) == phi * phi

\* 0.01 cm2, the required area below which no bar is needed (127.3 units).
NegligibleAs == 127

CeilDiv(a, b) == (a + b - 1) \div b

BarOption(diameter_mm, count, area_provided_cm2, status, anchorage_length_cm) ==
    [diameter_mm |-> diameter_mm, count |-> count,
     area_provided_cm2 |-> area_provided_cm2, status |-> status,
     anchorage_length_cm |-> anchorage_length_cm]

\* The available width without the allowance for the stirrups.
WidthAvailableNoStirrup(bw_cm) == (bw_cm * 10 - 2 * 25) * 10

\* width_available = bw_mm - 2*(cover_mm + estribo_est), cover 25 mm.
WidthAvailable(bw_cm) == (bw_cm * 10 - 2 * (25 + 5)) * 10

\* n = ceil(as_req / area_bar), at least 2.
BarCount(as_req, phi) ==
    IF CeilDiv(as_req, AreaBar(phi)) < 2 THEN 2 ELSE CeilDiv(as_req, AreaBar(phi))

\* space_required = n*phi + (n-1)*ah_min, ah_min 20 mm.
SpaceRequired(n, phi) == n * phi + (n - 1) * 200

\* The loop with an option of equal excess replacing the one held.
RECURSIVE LongitudinalLoopLastWins(_, _, _, _, _, _)
LongitudinalLoopLastWins(as_req, bw_cm, is_top, i, best_option, min_overdesign) ==
    IF i > Len(longitudinal_bars) THEN best_option
    ELSE LET phi == longitudinal_bars[i]
             n == BarCount(as_req, phi)
             overdesign == n * AreaBar(phi) - as_req
         IN  IF /\ SpaceRequired(n, phi) <= WidthAvailable(bw_cm)
                /\ (min_overdesign < 0 \/ overdesign <= min_overdesign)
             THEN LongitudinalLoopLastWins(as_req, bw_cm, is_top, i + 1,
                      BarOption(phi, n, n * AreaBar(phi), "OK",
                                Sym("lb", <<phi, B2I(is_top)>>)),
                      overdesign)
             ELSE LongitudinalLoopLastWins(as_req, bw_cm, is_top, i + 1,
                                           best_option, min_overdesign)

\* The loop of select_longitudinal over the catalogue, from bar i on, holding
\* the best option so far (None for none) and its excess area (-1 for inf).
RECURSIVE LongitudinalLoop(_, _, _, _, _, _)
LongitudinalLoop(as_req, bw_cm, is_top, i, best_option, min_overdesign) ==
    IF i > Len(longitudinal_bars) THEN best_option
    ELSE LET phi == longitudinal_bars[i]
             n == BarCount(as_req, phi)
             overdesign == n * AreaBar(phi) - as_req
         IN  IF /\ SpaceRequired(n, phi) <= WidthAvailable(bw_cm)
                /\ (min_overdesign < 0 \/ overdesign < min_overdesign)
             THEN LongitudinalLoop(as_req, bw_cm, is_top, i + 1,
                      BarOption(phi, n, n * AreaBar(phi), "OK",
                                Sym("lb", <<phi, B2I(is_top)>>)),
                      overdesign)
             ELSE LongitudinalLoop(as_req, bw_cm, is_top, i + 1,
                                   best_option, min_overdesign)

\* BarSelectorEngine.select_longitudinal(as_req, bw_cm, is_top=...)
select_longitudinal(as_req, bw_cm, is_top) ==
    IF as_req <= NegligibleAs THEN BarOption(0, 0, 0, "Dispensado", Zero)
    ELSE LET best_option == LongitudinalLoop(as_req, bw_cm, is_top, 1, None, -1)
         IN  IF ~IsNone(best_option) THEN best_option
             ELSE BarOption(0, 0, 0, "Erro: Nao cabe (Camada Dupla nec.)", Zero)

MinOf(a, b) == IF a <= b THEN a ELSE b

StirrupOption(diameter_mm, spacing_cm, legs, status) ==
    [diameter_mm |-> diameter_mm, spacing_cm |-> spacing_cm, legs |-> legs,
     status |-> status]

\* The required Asw/s is kept in hundredths of an area unit per cm. A value of
\* at most 0.0001 cm2/cm (127.3) is replaced by 0.001 cm2/cm (1273.2).
AswEffective(asw_s_req) == IF asw_s_req <= 127 THEN 1273 ELSE asw_s_req

\* The computed spacing rounded up to a whole centimetre.
SCalcCeil(phi, asw_s_req) == CeilDiv(2 * AreaBar(phi) * 100, AswEffective(asw_s_req))

\* floor(s_calc), s_calc = area_total / asw_s_req with two legs, in cm.
SCalcFloor(phi, asw_s_req) == (2 * AreaBar(phi) * 100) \div AswEffective(asw_s_req)

\* floor(s_max), s_max = min(0.6*(h_cm - 4), 30.0).
SMaxFloor(h_cm) == MinOf((6 * (h_cm - 4)) \div 10, 30)

\* The adopted spacing without the geometric maximum.
SAdoptUncapped(phi, asw_s_req, h_cm) == SCalcFloor(phi, asw_s_req)

\* s_adopt = floor(min(s_calc, s_max))
SAdopt(phi, asw_s_req, h_cm) == MinOf(SCalcFloor(phi, asw_s_req), SMaxFloor(h_cm))

SpacingTooTight == "Erro: Espacamento < 5cm"

\* The loop of select_stirrup over the catalogue, from bar i on.
RECURSIVE StirrupLoop(_, _, _)
StirrupLoop(asw_s_req, h_cm, i) ==
    IF i > Len(transversal_bars) THEN StirrupOption(0, 0, 2, SpacingTooTight)
    ELSE IF SAdopt(transversal_bars[i], asw_s_req, h_cm) >= 5
         THEN StirrupOption(transversal_bars[i],
                            SAdopt(transversal_bars[i], asw_s_req, h_cm), 2, "OK")
         ELSE StirrupLoop(asw_s_req, h_cm, i + 1)

\* BarSelectorEngine.select_stirrup(asw_s_req, bw_cm, h_cm)
select_stirrup(asw_s_req, bw_cm, h_cm) == StirrupLoop(asw_s_req, h_cm, 1)

\* math.pi in ten-thousandths; exact for the ceiling below on sections up to
\* 4000 cm2, where no whole bw*h lies between n*320*pi and n*320*3.1416.
PiTenThousandths == 31416

\* Skin reinforcement is dispensed with up to and including h = 60.
SkinNotRequiredUpTo60(h_cm) == h_cm <= 60

\* if h_cm < 60.0
SkinNotRequired(h_cm) == h_cm < 60

\* n_face = ceil(As_pele_face / area_bar), at least 2, for phi 8 bars:
\* As_pele_face / area_bar = 0.0005*bw*h / (pi*0.16) = bw*h / (320*pi).
SkinBarsPerFace(h_cm, bw_cm) ==
    LET n == CeilDiv(bw_cm * h_cm * 10000, 320 * PiTenThousandths)
    IN  IF n < 2 THEN 2 ELSE n

\* BarSelectorEngine.select_skin_reinforcement(h_cm, bw_cm)
select_skin_reinforcement(h_cm, bw_cm) ==
    IF SkinNotRequired(h_cm)
    THEN BarOption(0, 0, 0, "Nao necessario (h < 60)", Zero)
    ELSE LET n_face == SkinBarsPerFace(h_cm, bw_cm)
         IN  BarOption(80, n_face * 2, n_face * 2 * AreaBar(80),
                       ToString(n_face) \o " barras/face", Zero)

\* --------------------------------------------- flexural design in numbers
\* Moments are kept in units of 1/140 kNm, so that a design moment |M|*gamma_f
\* is a whole number of kNcm; design moments are carried doubled (half kNcm),
\* steel areas in 1e-4 cm2, the distributed load in kN/m and lengths in m and
\* cm as in the code. Material: fck 25 MPa, fyk 500 MPa (the defaults).
Abs(x) == IF x < 0 THEN -x ELSE x

MaxOf(a, b) == IF a >= b THEN a ELSE b

\* The whole part of the square root of n, between lo and hi.
RECURSIVE ISqrtBetween(_, _, _)
ISqrtBetween(n, lo, hi) ==
    IF lo >= hi THEN lo
    ELSE LET mid == (lo + hi + 1) \div 2
         IN  IF mid * mid <= n THEN ISqrtBetween(n, mid, hi)
             ELSE ISqrtBetween(n, lo, mid - 1)

ISqrt(n) == ISqrtBetween(n, 0, 46340)

\* _calc_reinforcement_area(Md, b, d, fcd, fyd), Md doubled kNcm, to 1e-4 cm2:
\* kmd in 1e-4, the root and beta_x in 1e-4, z in 1e-4 cm.
calc_reinforcement_area(Md2, b_cm, d_cm) ==
    IF Md2 <= 2 THEN 0
    ELSE LET kmd == (Md2 * 2800) \div (b_cm * d_cm * d_cm)
         IN  IF kmd > 2510 THEN (Md2 * 1725) \div (9 * d_cm)
             ELSE IF 46240000 - 10880 * kmd < 0 THEN 9990000
             ELSE LET beta_x == ((6800 - ISqrt(46240000 - 10880 * kmd)) * 10000) \div 5440
                      z == (d_cm * (100000 - 4 * beta_x)) \div 10
                  IN  (Md2 * 11500) \div (z \div 100)

\* The computed area persisted without the minimum.
NoMinimum(as, as_min) == as

\* max(as, as_min)
AtLeastMinimum(as, as_min) == MaxOf(as, as_min)

\* ELUDesignEngine._design_flexure(span): the dict stored in design_results.
design_flexure(moment_left, moment_right, q_total, L, b, h) ==
    LET d == h - 4
        Md_neg_esq == 2 * Abs(moment_left)
        Md_neg_dir == 2 * Abs(moment_right)
        Md_pos_vao == MaxOf(0, 35 * q_total * L * L - (Abs(moment_left) + Abs(moment_right)))
        as_min == 15 * b * h
    IN  [As_sup_esq |-> IF Md_neg_esq > 20
                        THEN AtLeastMinimum(calc_reinforcement_area(Md_neg_esq, b, d), as_min)
                        ELSE 0,
         As_sup_dir |-> IF Md_neg_dir > 20
                        THEN AtLeastMinimum(calc_reinforcement_area(Md_neg_dir, b, d), as_min)
                        ELSE 0,
         As_inf_vao |-> AtLeastMinimum(calc_reinforcement_area(Md_pos_vao, b, d), as_min),
         Md_max |-> MaxOf(Md_neg_esq, MaxOf(Md_neg_dir, Md_pos_vao))]

\* ------------------------------------------ serviceability checks in numbers
\* Crack widths are kept in 1e-4 mm, deflections in 1e-3 mm, the steel stress
\* in 0.01 kN/cm2, the load in 1e-3 kN/m. A computed value is rounded up to its
\* unit, which keeps its comparison with a limit of whole units exact.
crack_limits == [caa \in 1..4 |-> <<4000, 3000, 2000, 2000>>[caa]]

\* round(x, ndigits) to a multiple of step; a value half way between two
\* multiples goes to either, as its binary representation decides.
Rounded(x, step) ==
    LET lo == (x \div step) * step
        r == x % step
    IN  IF 2 * r < step THEN {lo}
        ELSE IF 2 * r > step THEN {lo + step}
        ELSE {lo, lo + step}

\* The status taken from the value as stored in the record.
StatusOfStored(computed, stored, limit) == IF stored <= limit THEN "OK" ELSE "FALHA"

\* "OK" if value <= limit else "FALHA", on the value as computed.
StatusAgainst(computed, stored, limit) == IF computed <= limit THEN "OK" ELSE "FALHA"

\* wk_mm from the steel stress: term_1*term_2*term_3*10 with eta1 2.25,
\* Es 21000, fctm = 0.3*25^(2/3)/10, i.e. phi*sigma_s^2/5049.77 for
\* sigma_s >= 0 (term_3 is then its second argument).
CrackWidth(phi, sigma_s) ==
    CeilDiv(((sigma_s * sigma_s) \div 5) * (phi \div 5), 20199)

\* _check_cracking from the adopted steel (1e-4 cm2) and the steel stress it
\* computes: the dicts it can return, with the local wk_mm.
check_cracking(As_adopt, sigma_s, caa) ==
    IF As_adopt <= 10
    THEN {[wk |-> 0, limit |-> crack_limits[caa], status |-> "OK", wk_mm |-> 0]}
    ELSE LET phi == IF As_adopt > 100000 THEN 160
                    ELSE IF As_adopt > 50000 THEN 125 ELSE 100
             wk_mm == CrackWidth(phi, sigma_s)
             limit == crack_limits[caa]
         IN  {[wk |-> wk, limit |-> limit,
               status |-> StatusAgainst(wk_mm, wk, limit), wk_mm |-> wk_mm] :
                 wk \in Rounded(wk_mm, 10)}

\* f_total_mm = 10 * 1.5 * (1 + 2) * 5*q_line*L_cm^4 / (384*E_cs*I_c) with
\* q_line = q/1.4/100, E_cs = 2380 and I_c = b*h^3/12:
\* 2110.219 * q * L^4 / (b*h^3), L in m.
DeflectionTotal(q_elu, L_m, b, h) ==
    CeilDiv(q_elu * ((L_m * L_m * L_m * L_m * 2110219) \div ((b * h * h * h) \div 100)),
            100000)

\* _check_deflection: the dicts it can return, with the local f_total_mm.
\* limit = (L_cm*10)/250 mm; f_inst_mm is a third of f_total_mm.
check_deflection(q_elu, L_m, b, h) ==
    LET limit == 4000 * L_m
        f_total_mm == DeflectionTotal(q_elu, L_m, b, h)
        f_inst_mm == CeilDiv(f_total_mm, 3)
    IN  {[inst |-> inst, total |-> total, limit |-> limit,
          status |-> StatusAgainst(f_total_mm, total, limit),
          f_total_mm |-> f_total_mm] :
            inst \in Rounded(f_inst_mm, 10), total \in Rounded(f_total_mm, 10)}

ServiceabilityResult(res_crack, res_deflection) ==
    [wk_calc |-> res_crack.wk,
     wk_limit |-> res_crack.limit,
     deflection_inst |-> res_deflection.inst,
     deflection_total |-> res_deflection.total,
     deflection_limit |-> res_deflection.limit,
     status_crack |-> res_crack.status,
     status_deflection |-> res_deflection.status]

\* ------------------------------------------------ matrix solver in numbers
\* The solver on beams whose spans share one length L, section and material,
\* in exact fractions.  With v = (L^4/12EI)*a and theta = (L^3/12EI)*b for the
\* unknowns, the element stiffness is the integer matrix k_local below, a
\* force of the system is in units of L/12 and a moment in units of L^2/12.
RECURSIVE GCD(_, _)
GCD(a, b) == IF b = 0 THEN a ELSE GCD(b, a % b)

\* The fraction n/d in lowest terms, d > 0.
Frac(n, d) ==
    LET g == GCD(Abs(n), Abs(d))
        sgn == IF d < 0 THEN -1 ELSE 1
    IN  [n |-> (sgn * n) \div g, d |-> (sgn * d) \div g]

k_local ==
    << <<12, 6, -12, 6>>, <<6, 4, -6, 2>>, <<-12, -6, 12, -6>>, <<6, 2, -6, 4>> >>

\* The determinant of a square matrix kept as a sequence of rows.
RECURSIVE Det(_)
Det(A) ==
    IF Len(A) = 0 THEN 1
    ELSE LET m == Len(A)
             Minor(j) == [r \in 1..(m - 1) |->
                            [c \in 1..(m - 1) |-> A[r + 1][IF c < j THEN c ELSE c + 1]]]
             sign(j) == IF j % 2 = 1 THEN 1 ELSE -1
             RECURSIVE Expand(_)
             Expand(j) == IF j > m THEN 0
                          ELSE sign(j) * A[1][j] * Det(Minor(j)) + Expand(j + 1)
         IN  Expand(1)

\* The fixed-end actions of a span with every load counted as distributed.
RECURSIVE FixedEndAnyKind(_, _)
FixedEndAnyKind(loads, k) ==
    IF k > Len(loads) THEN <<0, 0, 0, 0>>
    ELSE LET rest == FixedEndAnyKind(loads, k + 1)
             q == loads[k].value
         IN  <<rest[1] + 6 * q, rest[2] + q, rest[3] + 6 * q, rest[4] - q>>

\* The loop over span.loads of _assemble_load_vector and of
\* _compute_internal_forces: q*L/2, q*L^2/12, q*L/2, -q*L^2/12 added for
\* every DISTRIBUTED load, from load k on.
RECURSIVE FixedEnd(_, _)
FixedEnd(loads, k) ==
    IF k > Len(loads) THEN <<0, 0, 0, 0>>
    ELSE LET rest == FixedEnd(loads, k + 1)
             q == loads[k].value
         IN  IF loads[k].load_type = "DISTRIBUTED"
             THEN <<rest[1] + 6 * q, rest[2] + q, rest[3] + 6 * q, rest[4] - q>>
             ELSE rest

\* The end forces with the right end's values kept in the system's sign.
EndForcesUnmapped(f_final, L, D) ==
    [shear_left |-> Frac(f_final[1] * L, 12 * D),
     moment_left |-> Frac(f_final[2] * L * L, 12 * D),
     shear_right |-> Frac(f_final[3] * L, 12 * D),
     moment_right |-> Frac(f_final[4] * L * L, 12 * D)]

\* The mapping of f_final (numerators over D) to the span's four values.
EndForces(f_final, L, D) ==
    [shear_left |-> Frac(f_final[1] * L, 12 * D),
     moment_left |-> Frac(f_final[2] * L * L, 12 * D),
     shear_right |-> Frac(-f_final[3] * L, 12 * D),
     moment_right |-> Frac(-f_final[4] * L * L, 12 * D)]

\* MatrixSolver(beam).solve() on a beam given by the span length, the nodes'
\* restraint flags and the spans' load lists: the four end forces of every
\* span.  A singular reduced matrix has no solution to report (whether the
\* code raises then is SingularDetected's matter).
solve(L, conds, loads) ==
    LET n == Len(loads)
        dofs(e) == <<2 * e - 1, 2 * e, 2 * e + 1, 2 * e + 2>>
        Local(e, d) == d - 2 * (e - 1)
        K_global == [r \in 1..(2 * n + 2) |-> [c \in 1..(2 * n + 2) |->
                       SumSeq([e \in 1..n |->
                          IF Local(e, r) \in 1..4 /\ Local(e, c) \in 1..4
                          THEN k_local[Local(e, r)][Local(e, c)] ELSE 0])]]
        F_global == [r \in 1..(2 * n + 2) |->
                       -SumSeq([e \in 1..n |->
                          IF Local(e, r) \in 1..4 THEN FixedEnd(loads[e], 1)[Local(e, r)]
                          ELSE 0])]
        IsFree(d) == ~conds[(d + 1) \div 2][IF d % 2 = 1 THEN 1 ELSE 2]
        free_dofs == SelectSeq([d \in 1..(2 * n + 2) |-> d], IsFree)
        m == Len(free_dofs)
        K_reduced == [r \in 1..m |-> [c \in 1..m |-> K_global[free_dofs[r]][free_dofs[c]]]]
        F_reduced == [r \in 1..m |-> F_global[free_dofs[r]]]
        D == Det(K_reduced)
        Replaced(i) == [r \in 1..m |-> [c \in 1..m |->
                          IF c = i THEN F_reduced[r] ELSE K_reduced[r][c]]]
        u_reduced == [i \in 1..m |-> Det(Replaced(i))]
        displacements == [d \in 1..(2 * n + 2) |->
                            SumSeq([i \in 1..m |->
                               IF free_dofs[i] = d THEN u_reduced[i] ELSE 0])]
        f_final(e) == [r \in 1..4 |->
                         SumSeq([c \in 1..4 |-> k_local[r][c] * displacements[dofs(e)[c]]])
                         + D * FixedEnd(loads[e], 1)[r]]
    IN  IF D = 0 THEN [err |-> "singular", spans |-> <<>>]
        ELSE [err |-> "", spans |-> [e \in 1..n |-> EndForces(f_final(e), L, D)]]

\* _design_flexure's positive moment before the factor gamma_f:
\* max(0, M0 - (|M_left| + |M_right|)/2), M0 = q_total*L^2/8, with q_total
\* summed over the DISTRIBUTED loads.
PositiveMoment(L, loads, forces) ==
    LET q_total == SumSeq([k \in 1..Len(loads) |->
                            IF loads[k].load_type = "DISTRIBUTED" THEN loads[k].value ELSE 0])
        ml == forces.moment_left
        mr == forces.moment_right
        num == q_total * L * L * ml.d * mr.d - 4 * (Abs(ml.n) * mr.d + Abs(mr.n) * ml.d)
    IN  IF num <= 0 THEN Frac(0, 1) ELSE Frac(num, 8 * ml.d * mr.d)

\* ------------------------------------------- SpecSel: span-level functions
MaxAsSteps == 60
MaxBarCount == 10

\* Required areas: a grid of 0.25 cm2 steps, the negligible-area threshold,
\* and the areas that a whole number of bars supplies exactly.
AsReqs ==
    {3183 * k : k \in 0..MaxAsSteps}
    \cup {NegligibleAs, NegligibleAs + 1}
    \cup {n * AreaBar(longitudinal_bars[i]) + d :
            n \in 2..4, i \in 1..Len(longitudinal_bars), d \in {0, 1}}

SelWidths == {12, 15, 20, 30}

\* The caller is done with the result of the last call.
SelReturn ==
    /\ sel # NoCall
    /\ sel' = NoCall
    /\ UNCHANGED <<heap, beams, oracle, built, phase, pc, cur, log, err, bi, results, opt>>

CallSelectLongitudinal ==
    /\ sel = NoCall
    /\ \E as_req \in AsReqs, bw_cm \in SelWidths, is_top \in BOOLEAN :
          sel' = [fn |-> "select_longitudinal", as_req |-> as_req, bw_cm |-> bw_cm,
                  is_top |-> is_top, out |-> select_longitudinal(as_req, bw_cm, is_top)]
    /\ UNCHANGED <<heap, beams, oracle, built, phase, pc, cur, log, err, bi, results, opt>>

MaxAswSteps == 50

\* Required Asw/s: a grid of steps of 100 units per cm, the threshold of the
\* replacement, and the values at which a whole spacing supplies it exactly.
AswReqs ==
    {10000 * k : k \in 0..MaxAswSteps}
    \cup {127, 128}
    \cup {(2 * AreaBar(transversal_bars[i]) * 100) \div s + d :
            i \in 1..Len(transversal_bars), s \in {5, 6, 30}, d \in {0, 1}}

SelHeights == {10, 12, 13, 20, 40, 54, 59, 60, 61, 80}

CallSelectStirrup ==
    /\ sel = NoCall
    /\ \E asw_s_req \in AswReqs, bw_cm \in SelWidths, h_cm \in SelHeights :
          sel' = [fn |-> "select_stirrup", asw_s_req |-> asw_s_req, bw_cm |-> bw_cm,
                  h_cm |-> h_cm, out |-> select_stirrup(asw_s_req, bw_cm, h_cm)]
    /\ UNCHANGED <<heap, beams, oracle, built, phase, pc, cur, log, err, bi, results, opt>>

CallSelectSkin ==
    /\ sel = NoCall
    /\ \E h_cm \in SelHeights \cup {100, 120}, bw_cm \in SelWidths :
          sel' = [fn |-> "select_skin_reinforcement", h_cm |-> h_cm, bw_cm |-> bw_cm,
                  out |-> select_skin_reinforcement(h_cm, bw_cm)]
    /\ UNCHANGED <<heap, beams, oracle, built, phase, pc, cur, log, err, bi, results, opt>>

\* End moments of a span from the solver: none, below, at and above the
\* 0.1 kNm design moment (10 units), hogging and sagging, up to 100 kNm.
FlexMoments == {0, -7, 10, 11, -1400, 4200, -14000}

CallDesignFlexure ==
    /\ sel = NoCall
    /\ \E ml \in FlexMoments, mr \in FlexMoments, q \in {0, 10, 30},
          L \in {4, 6}, b \in Widths, h \in {30, 40, 60} :
          sel' = [fn |-> "design_flexure", moment_left |-> ml, moment_right |-> mr,
                  q_total |-> q, length |-> L, bw |-> b, h |-> h,
                  out |-> design_flexure(ml, mr, q, L, b, h)]
    /\ UNCHANGED <<heap, beams, oracle, built, phase, pc, cur, log, err, bi, results, opt>>

\* Steel stresses: none, low, and around the stress at which 12.5 mm bars
\* reach 0.3 mm.
SteelStresses == {0, 2000} \cup 3478..3487

\* Distributed loads: none, moderate, and around the load that brings a
\* 5 m span of 20x40 to L/250.
CheckLoads == {0, 10000, 20000} \cup 19405..19415

\* run_checks on one span: the record written to span.els_results.
CallRunChecks ==
    /\ sel = NoCall
    /\ \E As_adopt \in {0, 30000, 65000, 120000}, sigma_s \in SteelStresses, caa \in {2, 3},
          q_elu \in CheckLoads, L_m \in {5}, b \in Widths, h \in {40, 50} :
          \E res_crack \in check_cracking(As_adopt, sigma_s, caa),
             res_deflection \in check_deflection(q_elu, L_m, b, h) :
             sel' = [fn |-> "run_checks", As_adopt |-> As_adopt, sigma_s |-> sigma_s,
                     caa |-> caa, q_elu |-> q_elu, length |-> L_m, bw |-> b, h |-> h,
                     wk_mm |-> res_crack.wk_mm,
                     f_total_mm |-> res_deflection.f_total_mm,
                     out |-> ServiceabilityResult(res_crack, res_deflection)]
    /\ UNCHANGED <<heap, beams, oracle, built, phase, pc, cur, log, err, bi, results, opt>>

\* Loads of a span of length L: two uniform loads, one over a part of the
\* span, and one of each other kind.
SolveLoads(L) ==
    {[load_type |-> "DISTRIBUTED", value |-> 15, position_start |-> 0, position_end |-> L],
     [load_type |-> "DISTRIBUTED", value |-> 5, position_start |-> 0, position_end |-> L],
     [load_type |-> "DISTRIBUTED", value |-> 15, position_start |-> 1, position_end |-> 2],
     [load_type |-> "POINT", value |-> 20, position_start |-> 2, position_end |-> 2],
     [load_type |-> "MOMENT", value |-> 7, position_start |-> 0, position_end |-> 0],
     [load_type |-> "TORSION", value |-> 3, position_start |-> 0, position_end |-> L]}

\* The load lists of a beam of n spans: the given one on the first span and,
\* on a second span, a uniform load or a point load before a uniform load.
SolveLoadLists(L, n, loads1, second) ==
    IF n = 1 THEN <<loads1>>
    ELSE IF second = 1
         THEN <<loads1, <<CHOOSE l \in SolveLoads(L) : l.value = 5>> >>
         ELSE <<loads1,
                <<CHOOSE l \in SolveLoads(L) : l.load_type = "POINT",
                  CHOOSE l \in SolveLoads(L) : l.value = 15 /\ l.position_start = 0>> >>

\* MatrixSolver(beam).solve() on a stable beam of one or two spans, with any
\* list of up to two loads on the first span and any restraint flags that
\* add_span can leave on the nodes.
CallSolve ==
    /\ sel = NoCall
    /\ \E L \in {4, 6}, n \in 1..2, second \in 1..2 :
       \E conds \in [1..(n + 1) -> {get_conditions(t) : t \in SupportTypes}],
          loads1 \in UNION {[1..k -> SolveLoads(L)] : k \in 0..2} :
          /\ n = 1 => second = 1
          /\ solve(L, conds, SolveLoadLists(L, n, loads1, second)).err = ""
          /\ sel' = [fn |-> "solve", length |-> L, conds |-> conds,
                     loads |-> SolveLoadLists(L, n, loads1, second),
                     out |-> solve(L, conds, SolveLoadLists(L, n, loads1, second)).spans]
    /\ UNCHANGED <<heap, beams, oracle, built, phase, pc, cur, log, err, bi, results, opt>>

\* ------------------------------------- properties: span-level functions
LongitudinalCalled == sel.fn = "select_longitudinal"

\* The width left between the stirrups: the web less the 25 mm cover and the
\* 5 mm stirrup allowance on both sides.
ClearWidth(bw_cm) == bw_cm * 100 - 2 * 250 - 2 * 50

\* Bars of diameter phi side by side, 20 mm apart.
RowWidth(count, phi) == count * phi + (count - 1) * 200

\* The catalogue options (count, diameter) that supply the required area and
\* fit the width.
Feasible(as_req, bw_cm) ==
    {o \in (2..MaxBarCount) \X Range(longitudinal_bars) :
        /\ o[1] * AreaBar(o[2]) >= as_req
        /\ RowWidth(o[1], o[2]) <= ClearWidth(bw_cm)}

RequiredCount(as_req, phi) ==
    CHOOSE n \in 2..(2 + as_req \div AreaBar(phi)) :
        /\ n * AreaBar(phi) >= as_req
        /\ \A k \in 2..(n - 1) : k * AreaBar(phi) < as_req

DoesNotFit == "Erro: Nao cabe (Camada Dupla nec.)"

StirrupCalled == sel.fn = "select_stirrup"

\* Two legs of diameter phi at a spacing of s cm supply the Asw/s required.
Supplies(phi, s, asw_s_req) == 2 * AreaBar(phi) * 100 >= s * asw_s_req

\* A spacing of s cm is allowed for the height: at most 30 cm and 0.6*(h - 4).
WithinMaximum(s, h_cm) == s <= 30 /\ 10 * s <= 6 * (h_cm - 4)

\* The floored, capped spacing of diameter phi is at least 5 cm.
ReachesFive(phi, asw_s_req, h_cm) ==
    Supplies(phi, 5, AswEffective(asw_s_req)) /\ WithinMaximum(5, h_cm)

\* C16: an OK result of select_stirrup has a whole spacing between 5 cm and
\* min(30, 0.6*(h - 4)) and the first catalogue diameter whose floored, capped
\* spacing reaches 5 cm; when no diameter reaches 5 cm the result is the
\* spacing-too-tight failure with spacing 0.
C16_StirrupSpacingBounds ==
    StirrupCalled =>
        /\ sel.out.status \in {"OK", SpacingTooTight}
        /\ sel.out.status = "OK" =>
              /\ sel.out.spacing_cm \in 5..30
              /\ WithinMaximum(sel.out.spacing_cm, sel.h_cm)
              /\ \E i \in 1..Len(transversal_bars) :
                    /\ sel.out.diameter_mm = transversal_bars[i]
                    /\ ReachesFive(transversal_bars[i], sel.asw_s_req, sel.h_cm)
                    /\ \A j \in 1..(i - 1) :
                          ~ReachesFive(transversal_bars[j], sel.asw_s_req, sel.h_cm)
        /\ sel.out.status = SpacingTooTight <=>
              \A i \in 1..Len(transversal_bars) :
                 ~ReachesFive(transversal_bars[i], sel.asw_s_req, sel.h_cm)
        /\ sel.out.status = SpacingTooTight => sel.out.spacing_cm = 0

C16_Witness ==
    /\ StirrupCalled
    /\ sel.out.status = "OK"
    /\ sel.out.diameter_mm = 80
    /\ sel.out.spacing_cm < SCalcFloor(80, sel.asw_s_req)
    /\ sel.out.spacing_cm < 30

SkinCalled == sel.fn = "select_skin_reinforcement"

\* An area in units of pi/40000 cm2 is at least 0.10% of bw*h cm2:
\* area*pi/40000 >= bw*h/1000, taken with 3.1415 < pi.
CoversSkinMinimum(area, h_cm, bw_cm) == area * 31415 >= 40 * bw_cm * h_cm * 10000

\* C18: below h = 60 cm select_skin_reinforcement answers "not required" with
\* no bars and no area; from h = 60 cm on it answers the same number of bars,
\* two at least, on each face, with an area of at least 0.10% of bw*h.
C18_SkinBySectionHeight ==
    SkinCalled =>
        /\ sel.h_cm < 60 =>
              /\ sel.out.status = "Nao necessario (h < 60)"
              /\ sel.out.count = 0
              /\ sel.out.area_provided_cm2 = 0
        /\ sel.h_cm >= 60 =>
              /\ sel.out.count > 0
              /\ sel.out.count % 2 = 0
              /\ sel.out.count \div 2 >= 2
              /\ sel.out.status = ToString(sel.out.count \div 2) \o " barras/face"
              /\ sel.out.area_provided_cm2 = sel.out.count * AreaBar(sel.out.diameter_mm)
              /\ CoversSkinMinimum(sel.out.area_provided_cm2, sel.h_cm, sel.bw_cm)

C18_Witness ==
    /\ SkinCalled
    /\ sel.h_cm = 60
    /\ sel.out.count = 4
    /\ ~CoversSkinMinimum(2 * AreaBar(80), sel.h_cm, sel.bw_cm)

FlexureCalled == sel.fn = "design_flexure"

\* The minimum reinforcement 0.0015*bw*h, in 1e-4 cm2.
AsFloor == 15 * sel.bw * sel.h

\* The design moment of an end moment (in 1/140 kNm) is above 0.1 kNm.
DesignMomentAboveThreshold(moment) == Abs(moment) > 10

\* C19: after the flexural design the span's bottom area is at least
\* 0.0015*bw*h; each support's top area is at least that when the support's
\* design moment is above 0.1 kNm and exactly 0 otherwise; no persisted area
\* lies strictly between 0 and the minimum.
C19_MinimumReinforcement ==
    FlexureCalled =>
        /\ sel.out.As_inf_vao >= AsFloor
        /\ sel.out.As_sup_esq = 0 <=> ~DesignMomentAboveThreshold(sel.moment_left)
        /\ sel.out.As_sup_dir = 0 <=> ~DesignMomentAboveThreshold(sel.moment_right)
        /\ DesignMomentAboveThreshold(sel.moment_left) => sel.out.As_sup_esq >= AsFloor
        /\ DesignMomentAboveThreshold(sel.moment_right) => sel.out.As_sup_dir >= AsFloor
        /\ \A k \in {"As_sup_esq", "As_sup_dir", "As_inf_vao"} :
              sel.out[k] = 0 \/ sel.out[k] >= AsFloor

C19_Witness ==
    /\ FlexureCalled
    /\ sel.moment_left = 10 /\ sel.out.As_sup_esq = 0
    /\ sel.moment_right = 11 /\ sel.out.As_sup_dir = AsFloor
    /\ sel.out.As_inf_vao > AsFloor

ChecksCalled == sel.fn = "run_checks"

Pass(status) == status = "OK"

SolveCalled == sel.fn = "solve"

\* The restraint flags of a simple support.
Simple == <<TRUE, FALSE>>

\* The sum of the values of the distributed loads of a load list.
DistributedSum(loads) ==
    SumSeq([k \in 1..Len(loads) |->
              IF loads[k].load_type = "DISTRIBUTED" THEN loads[k].value ELSE 0])

\* The load lists with each span's loads replaced by one distributed load
\* over the whole span, of the sum of the span's distributed loads.
SummedLoads(L, loads) ==
    [e \in 1..Len(loads) |->
       <<[load_type |-> "DISTRIBUTED", value |-> DistributedSum(loads[e]),
          position_start |-> 0, position_end |-> L]>>]

C22_SimplySupportedClosedForm ==
    (/\ SolveCalled
     /\ sel.conds = <<Simple, Simple>>
     /\ Len(sel.loads[1]) = 1
     /\ sel.loads[1][1].load_type = "DISTRIBUTED"
     /\ sel.loads[1][1].position_start = 0
     /\ sel.loads[1][1].position_end = sel.length) =>
        LET q == sel.loads[1][1].value
            L == sel.length
        IN  /\ sel.out[1].shear_left = Frac(q * L, 2)
            /\ sel.out[1].shear_right = Frac(-q * L, 2)
            /\ sel.out[1].moment_left = Frac(0, 1)
            /\ sel.out[1].moment_right = Frac(0, 1)
            /\ PositiveMoment(L, sel.loads[1], sel.out[1]) = Frac(q * L * L, 8)

C22_Witness ==
    /\ SolveCalled
    /\ sel.conds = <<Simple, Simple>>
    /\ sel.length = 6
    /\ Len(sel.loads[1]) = 1
    /\ sel.loads[1][1].load_type = "DISTRIBUTED"
    /\ sel.loads[1][1].value = 15
    /\ sel.loads[1][1].position_end = 6
    /\ sel.out[1].shear_left = Frac(45, 1)
    /\ sel.out[1].shear_right = Frac(-45, 1)
    /\ PositiveMoment(6, sel.loads[1], sel.out[1]) = Frac(135, 2)

\* --------------------------------------------- trial quantities in numbers
\* Step D of an optimizer trial on spans given in numbers: per span its
\* length (m), its web width, the two serviceability statuses and the four
\* required steel areas the engines left on it (in the selector's units).
\* Steel masses are kept in two parts, each in its own unit, since the code
\* computes the longitudinal bars with math.pi and the stirrups with 3.1416:
\* steel_long in pi/40000 cm2 * 0.25 m * 0.785 kg/(cm2 m), steel_st in
\* 2*3.1416/40000 cm2 * 1 m * 0.785 kg/(cm2 m).
FracAdd(a, b) == Frac(a.n * b.d + b.n * a.d, a.d * b.d)

\* total_steel_kg += det.area_provided_cm2 * (L * quarters/4) * 0.785, for a
\* selection with bars.
LongitudinalSteel(det, quarters, L) ==
    IF det.count > 0 THEN det.area_provided_cm2 * quarters * L ELSE 0

\* The stirrups' mass without the test of the selection's status: the number
\* of stirrups is (L*100) / spacing_cm.
StirrupSteelUnguarded(det_shear, L, h_test, bw) ==
    IF det_shear.spacing_cm = 0 THEN [err |-> "ZeroDivisionError", kg |-> Frac(0, 1)]
    ELSE LET len_st == 2 * ((h_test - 4) + (bw - 4)) + 15
         IN  [err |-> "",
              kg |-> Frac(L * len_st * AreaBar(det_shear.diameter_mm),
                          det_shear.spacing_cm)]

\* if det_shear.status == "OK": total_steel_kg += (num_st * len_st/100) *
\* (area_st_unit * 0.785)
StirrupSteel(det_shear, L, h_test, bw) ==
    IF det_shear.status = "OK" THEN StirrupSteelUnguarded(det_shear, L, h_test, bw)
    ELSE [err |-> "", kg |-> Frac(0, 1)]

\* The loop over the trial's spans, from span i on: the first span that
\* failed a check ends it (valid_design = False, break); an error raised in
\* the body leaves the try block.
RECURSIVE MeasureLoop(_, _, _, _, _)
MeasureLoop(spans, h_test, bw, i, acc) ==
    IF i > Len(spans) THEN acc
    ELSE LET span == spans[i]
         IN  IF span.status_crack # "OK" \/ span.status_deflection # "OK"
             THEN [acc EXCEPT !.valid_design = FALSE]
             ELSE LET det_pos == select_longitudinal(span.As_inf_vao, span.bw, FALSE)
                      det_neg_esq == select_longitudinal(span.As_sup_esq, span.bw, TRUE)
                      det_neg_dir == select_longitudinal(span.As_sup_dir, span.bw, TRUE)
                      det_shear == select_stirrup(span.Asw_s_req, span.bw, h_test)
                      L == span.length
                      st == StirrupSteel(det_shear, L, h_test, bw)
                  IN  IF st.err # "" THEN [acc EXCEPT !.err = st.err]
                      ELSE MeasureLoop(spans, h_test, bw, i + 1,
                               [acc EXCEPT
                                  !.steel_long = @ + LongitudinalSteel(det_pos, 4, L)
                                                   + LongitudinalSteel(det_neg_esq, 1, L)
                                                   + LongitudinalSteel(det_neg_dir, 1, L),
                                  !.steel_st = FracAdd(@, st.kg),
                                  !.conc = @ + bw * h_test * L,
                                  !.form = @ + (2 * h_test + bw) * L])

\* The entry a trial appends to results, from step D on.  The OK entry
\* carries the quantities its cost is computed from (450 * conc + 12 * steel
\* + 80 * form): concrete in 1e-4 m3, formwork in 1e-2 m2.
TrialEntry(spans, h_test) ==
    LET bw == spans[1].bw
        m == MeasureLoop(spans, h_test, bw, 1,
                 [valid_design |-> TRUE, err |-> "", steel_long |-> 0,
                  steel_st |-> Frac(0, 1), conc |-> 0, form |-> 0])
    IN  IF m.err # ""
        THEN [h |-> h_test, status |-> "Erro Calc", cost |-> SentinelCost * 100]
        ELSE IF ~m.valid_design
             THEN [h |-> h_test, status |-> "Falha ELS", cost |-> SentinelCost * 100]
        ELSE [h |-> h_test, status |-> "OK", steel_long |-> m.steel_long,
              steel_st |-> m.steel_st, conc_m3 |-> m.conc, form_m2 |-> m.form]

\* Step D on one or two 4 m spans: areas that need no bar, that fit, and
\* that fit in no single layer (20 cm2); stirrup demands that a catalogue
\* stirrup meets and that none meets at 5 cm.
CallTrialEntry ==
    /\ sel = NoCall
    /\ \E n \in 1..2, h_test \in {30, 60} :
        \E spans \in [1..n ->
               [length : {4}, bw : {12, 20},
                status_crack : {"OK"}, status_deflection : {"OK", "FALHA"},
                As_inf_vao : {12732, 254648}, As_sup_esq : {0, 25465, 254648},
                As_sup_dir : {0}, Asw_s_req : {38197, 700000}]] :
            sel' = [fn |-> "trial_entry", spans |-> spans, h_test |-> h_test,
                    out |-> TrialEntry(spans, h_test)]
    /\ UNCHANGED <<heap, beams, oracle, built, phase, pc, cur, log, err, bi, results, opt>>

\* ------------------------------------------ properties: trial quantities
MeasureCalled == sel.fn = "trial_entry"

\* The selections of span i of the call.
Bars(i, which) ==
    select_longitudinal(sel.spans[i][which], sel.spans[i].bw, which # "As_inf_vao")

Stirrups(i) == select_stirrup(sel.spans[i].Asw_s_req, sel.spans[i].bw, sel.h_test)

DetailingFailed(i) ==
    \/ \E which \in {"As_inf_vao", "As_sup_esq", "As_sup_dir"} : Bars(i, which).status = DoesNotFit
    \/ Stirrups(i).status = SpacingTooTight

\* What a position adds to the steel when it counts only if it was selected.
BarsMass(i, which, quarters) ==
    IF Bars(i, which).status = "OK"
    THEN Bars(i, which).area_provided_cm2 * quarters * sel.spans[i].length ELSE 0

StirrupsMass(i) ==
    IF Stirrups(i).status = "OK"
    THEN Frac(sel.spans[i].length
                 * (2 * ((sel.h_test - 4) + (sel.spans[1].bw - 4)) + 15)
                 * AreaBar(Stirrups(i).diameter_mm),
              Stirrups(i).spacing_cm)
    ELSE Frac(0, 1)

\* C29: a detailing failure does not invalidate a trial: with a does-not-fit
\* bar selection or a spacing-too-tight stirrup selection on some span the
\* trial is still reported with status OK (and so is eligible as best), the
\* status depending on the serviceability checks only, and the failed
\* position adds nothing to the steel mass the cost is computed from.
C29_DetailingFailureStillOK ==
    MeasureCalled =>
        LET n == Len(sel.spans)
            passed == \A i \in 1..n : /\ sel.spans[i].status_crack = "OK"
                                       /\ sel.spans[i].status_deflection = "OK"
        IN  /\ sel.out.status = IF passed THEN "OK" ELSE "Falha ELS"
            /\ passed =>
                  /\ sel.out.steel_long =
                        SumSeq([i \in 1..n |->
                                  BarsMass(i, "As_inf_vao", 4) + BarsMass(i, "As_sup_esq", 1)
                                  + BarsMass(i, "As_sup_dir", 1)])
                  /\ sel.out.steel_st =
                        IF n = 1 THEN StirrupsMass(1)
                        ELSE FracAdd(StirrupsMass(1), StirrupsMass(2))

C29_Witness ==
    /\ MeasureCalled
    /\ Len(sel.spans) = 2
    /\ DetailingFailed(1) /\ DetailingFailed(2)
    /\ Bars(1, "As_inf_vao").status = DoesNotFit
    /\ Stirrups(2).status = SpacingTooTight
    /\ Bars(2, "As_inf_vao").status = "OK"
    /\ Stirrups(1).status = "OK"
    /\ sel.out.status = "OK"
    /\ sel.out.steel_long = Bars(2, "As_inf_vao").area_provided_cm2 * 4 * 4
    /\ sel.out.steel_st = StirrupsMass(1)
    /\ sel.out.steel_st.n > 0

\* ------------------------------------------- the report, on given trial lists
\* The end of optimize_beam (selection and report) on trial lists as the loop
\* leaves them: one entry per candidate height, an invalid trial with the
\* cost 99999, a valid one with the cost of its quantities, in cents (of an
\* entry only h, status and cost are read here).  The trials at 30, 35 and 80
\* vary, the others failed a check.  The costs are those of small beams and
\* one of a long beam (30 spans of 7 m, 60 cm wide: R$ 140048.81 at h = 80).
CallReport ==
    /\ sel = NoCall
    /\ \E h_orig \in {30, 35, 42},
          vary \in [{30, 35, 80} ->
                      {[status |-> "Falha ELS", cost |-> SentinelCost * 100],
                       [status |-> "Erro Calc", cost |-> SentinelCost * 100]}
                      \cup [status : {"OK"}, cost : {150000, 160000, 14004881}]] :
          LET rs == [k \in 1..Len(test_heights) |->
                        IF test_heights[k] \in DOMAIN vary
                        THEN [h |-> test_heights[k],
                              status |-> vary[test_heights[k]].status,
                              cost |-> vary[test_heights[k]].cost]
                        ELSE [h |-> test_heights[k], status |-> "Falha ELS",
                              cost |-> SentinelCost * 100]]
          IN  sel' = [fn |-> "report", results |-> rs, h_orig |-> h_orig,
                      out |-> Report(rs, h_orig)]
    /\ UNCHANGED <<heap, beams, oracle, built, phase, pc, cur, log, err, bi, results, opt>>

ReportCalled == sel.fn = "report"

\* C30: whenever the recommendation proposes another height (the trial of the
\* original height is in the list and the best height differs from it) the
\* saving it states is the cost of the original-height trial minus the best
\* cost and is not negative; in every other case, also when the original
\* height is not a candidate, the recommendation is to keep the section.
C30_SavingNonNegative ==
    (ReportCalled /\ "best" \in DOMAIN sel.out) =>
        LET at_orig == {k \in 1..Len(sel.results) : sel.results[k].h = sel.h_orig}
            rec == sel.out.recommendation
        IN  IF at_orig # {} /\ sel.out.best.h # sel.h_orig
            THEN /\ rec.text = "Alterar"
                 /\ \E k \in at_orig : rec.saving = sel.results[k].cost - sel.out.best.cost
                 /\ rec.saving >= 0
            ELSE rec = [text |-> "Manter secao atual."]

\* ---------------------------------------------- reaction export in numbers
\* Coordinates are whole metres, forces whole kN, moments whole kNm, and a
\* direction vector is given in fifths (<<3, 4>> is (0.6, 0.8)); every span is
\* 5 m long, so the end of a span lies at start + direction.  A moment
\* component is therefore in fifths of kNm.  All of these are exact in two
\* decimals, which is what the exported values are rounded to.
\*
\* A coordinate keeps the Python type it has in the program: the start point
\* of a beam is the pair the caller handed to add_span (the importer passes
\* the JSON numbers on as they are, an int for 0 and a float for 0.0); every
\* later node is start + length * direction, which is a float.
Coord(v, isfloat) == [val |-> v, float |-> isfloat]

\* The text of round(c, 3) inside the f-string: "0" for the int 0, "0.0" for
\* the float 0.0.
Repr(c) == [digits |-> c.val, point |-> c.float]

\* The dictionary key of a node, "<x>,<y>".
KeyOf(node) == <<Repr(node.x), Repr(node.y)>>

\* float(text), when the key is read back for the sorted output
ParseFloat(text) == text.digits

\* The forces the analysis left on span k of a beam (fixed numbers: the
\* export reads them, it does not compute them).
ExportForces(k) ==
    IF k = 1
    THEN [shear_left |-> -12, shear_right |-> -8, moment_left |-> -6, moment_right |-> -9]
    ELSE [shear_left |-> 7, shear_right |-> 11, moment_left |-> 4, moment_right |-> -3]

\* A beam as add_span builds it: node 0 at the start coordinates as given,
\* node k at the float start + k * length * direction.
ExportBeam(id, start, dir, conds) ==
    [id |-> id,
     direction_vector |-> dir,
     nodes |-> [k \in 1..Len(conds) |->
                  [x |-> IF k = 1 THEN start[1]
                         ELSE Coord(start[1].val + (k - 1) * dir[1], TRUE),
                   y |-> IF k = 1 THEN start[2]
                         ELSE Coord(start[2].val + (k - 1) * dir[2], TRUE),
                   support_conditions |-> conds[k]]],
     spans |-> [k \in 1..(Len(conds) - 1) |-> ExportForces(k)]]

\* _accumulate: the entry of the node's key is created when missing, then
\* the force, the beam id and the two moment components are added to it.
\* The dictionary is a sequence in insertion order.
accumulate(agg_dict, node, beam_id, fz, moment, dx, dy) ==
    LET key == KeyOf(node)
        known == \E i \in 1..Len(agg_dict) : agg_dict[i].key = key
        base == IF known THEN agg_dict
                ELSE Append(agg_dict, [key |-> key, Fz |-> 0, Mx |-> 0,
                                       My |-> 0, vigas |-> {}])
    IN  [i \in 1..Len(base) |->
           IF base[i].key = key
           THEN [base[i] EXCEPT !.Fz = @ + fz,
                                !.vigas = @ \cup {beam_id},
                                !.Mx = @ + moment * dy,
                                !.My = @ + moment * dx]
           ELSE base[i]]

\* The span ends the two `if` statements of the loop let through, in the
\* order of the loop: per beam, per span, the start and then the end.
RestrainedEnds(beam) ==
    Flatten([k \in 1..Len(beam.spans) |->
        LET span == beam.spans[k]
            start_node == beam.nodes[k]
            end_node == beam.nodes[k + 1]
        IN  (IF start_node.support_conditions[1]
             THEN << [node |-> start_node, beam_id |-> beam.id,
                      fz |-> span.shear_left,
                      m_node |-> IF start_node.support_conditions[2]
                                 THEN Abs(span.moment_left) ELSE 0,
                      dx |-> Abs(beam.direction_vector[1]),
                      dy |-> Abs(beam.direction_vector[2])] >>
             ELSE <<>>)
            \o
            (IF end_node.support_conditions[1]
             THEN << [node |-> end_node, beam_id |-> beam.id,
                      fz |-> Abs(span.shear_right),
                      m_node |-> IF end_node.support_conditions[2]
                                 THEN Abs(span.moment_right) ELSE 0,
                      dx |-> Abs(beam.direction_vector[1]),
                      dy |-> Abs(beam.direction_vector[2])] >>
             ELSE <<>>)])

\* sorted(column_map.items(), key = (y, x)): a stable sort, entries with equal
\* coordinates stay in insertion order.
RECURSIVE SortedByPosition(_)
SortedByPosition(items) ==
    IF items = <<>> THEN <<>>
    ELSE LET Before(a, b) ==
                 \/ ParseFloat(a.key[2]) < ParseFloat(b.key[2])
                 \/ /\ ParseFloat(a.key[2]) = ParseFloat(b.key[2])
                    /\ ParseFloat(a.key[1]) < ParseFloat(b.key[1])
             first == CHOOSE i \in 1..Len(items) :
                          /\ \A j \in 1..Len(items) : ~Before(items[j], items[i])
                          /\ \A j \in 1..(i - 1) : Before(items[i], items[j])
                                                   \/ Before(items[j], items[i])
             rest == [j \in 1..(Len(items) - 1) |->
                        IF j < first THEN items[j] ELSE items[j + 1]]
         IN  <<items[first]>> \o SortedByPosition(rest)

\* calculate_reactions: every restrained span end of every beam goes through
\* _accumulate, then the entries are listed by position.
calculate_reactions(bs) ==
    LET calls == Flatten([b \in 1..Len(bs) |-> RestrainedEnds(bs[b])])
        Fold[n \in 0..Len(calls)] ==
            IF n = 0 THEN <<>>
            ELSE accumulate(Fold[n - 1], calls[n].node, calls[n].beam_id,
                            calls[n].fz, calls[n].m_node,
                            calls[n].dx, calls[n].dy)
        sorted_items == SortedByPosition(Fold[Len(calls)])
    IN  [i \in 1..Len(sorted_items) |->
           [id_estimado |-> i,
            coordenada |-> [x |-> ParseFloat(sorted_items[i].key[1]),
                            y |-> ParseFloat(sorted_items[i].key[2])],
            Fz_kN |-> sorted_items[i].Fz,
            Mx_kNm |-> sorted_items[i].Mx,
            My_kNm |-> sorted_items[i].My,
            origem_cargas |-> sorted_items[i].vigas]]

\* calculate_reactions on two beams of the plan: V1 starts at the origin with
\* one or two spans, V2 has one span and starts at one of three points; a
\* start point is written with ints or with floats.
CallCalculateReactions ==
    /\ sel = NoCall
    /\ \E n \in 1..2, f1, f2 \in BOOLEAN,
          d1, d2 \in {<<5, 0>>, <<0, 5>>, <<3, 4>>},
          p2 \in {<<0, 0>>, <<0, -5>>, <<-3, -4>>} :
        \E c1 \in [1..(n + 1) -> {get_conditions(t) : t \in SupportTypes}],
           c2 \in [1..2 -> {get_conditions(t) : t \in SupportTypes}] :
            LET V1 == ExportBeam("V1", <<Coord(0, f1), Coord(0, f1)>>, d1, c1)
                V2 == ExportBeam("V2", <<Coord(p2[1], f2), Coord(p2[2], f2)>>, d2, c2)
            IN  sel' = [fn |-> "calculate_reactions", beams |-> <<V1, V2>>,
                        out |-> calculate_reactions(<<V1, V2>>)]
    /\ UNCHANGED <<heap, beams, oracle, built, phase, pc, cur, log, err, bi, results, opt>>

\* ------------------------------------------------ properties: reaction export
ExportCalled == sel.fn = "calculate_reactions"

\* every end of every span of the call, restrained or not
AllEnds ==
    Flatten([b \in 1..Len(sel.beams) |->
        Flatten([k \in 1..Len(sel.beams[b].spans) |->
            << [beam |-> sel.beams[b], node |-> sel.beams[b].nodes[k],
                shear |-> sel.beams[b].spans[k].shear_left,
                moment |-> sel.beams[b].spans[k].moment_left],
               [beam |-> sel.beams[b], node |-> sel.beams[b].nodes[k + 1],
                shear |-> Abs(sel.beams[b].spans[k].shear_right),
                moment |-> sel.beams[b].spans[k].moment_right] >>])])

\* the position of a node, as a pair of numbers
PositionOf(node) == [x |-> node.x.val, y |-> node.y.val]

\* what the span ends at position p add up to
ColumnAt(p) ==
    LET here == SelectSeq(AllEnds, LAMBDA e :
                    PositionOf(e.node) = p /\ e.node.support_conditions[1])
        Moment(e) == IF e.node.support_conditions[2] THEN Abs(e.moment) ELSE 0
    IN  [count |-> Len(here),
         Fz |-> SumSeq([i \in 1..Len(here) |-> here[i].shear]),
         Mx |-> SumSeq([i \in 1..Len(here) |->
                    Moment(here[i]) * Abs(here[i].beam.direction_vector[2])]),
         My |-> SumSeq([i \in 1..Len(here) |->
                    Moment(here[i]) * Abs(here[i].beam.direction_vector[1])])]

\* C23: calculate_reactions accumulates per support position: only
\* translation-restrained span ends contribute, the moment counts only on a
\* rotation-restrained node, a moment m adds m*|dx| to My and m*|dy| to Mx,
\* and all the span ends at one position are summed into one single entry.
C23_OneEntryPerPosition ==
    ExportCalled =>
        /\ \A i \in 1..Len(sel.out) :
              LET col == ColumnAt(sel.out[i].coordenada)
              IN  /\ col.count > 0
                  /\ sel.out[i].Fz_kN = col.Fz
                  /\ sel.out[i].Mx_kNm = col.Mx
                  /\ sel.out[i].My_kNm = col.My
        /\ \A i, j \in 1..Len(sel.out) :
              sel.out[i].coordenada = sel.out[j].coordenada => i = j
        /\ \A e \in Range(AllEnds) :
              e.node.support_conditions[1] =>
                  \E i \in 1..Len(sel.out) :
                      sel.out[i].coordenada = PositionOf(e.node)

\* ------------------------------------------------------- SpecSel: the spec
\* The span-level functions called directly, each on inputs of its bounded sets.
InitSel ==
    /\ heap = <<>>
    /\ beams = <<Beam(1)>>
    /\ oracle \in PlainOracles
    /\ built = "add_span"
    /\ phase = "build"
    /\ pc = "idle"
    /\ cur = 0
    /\ log = <<>>
    /\ err = ""
    /\ bi = 0
    /\ results = <<>>
    /\ opt = OptIdle
    /\ sel = NoCall

NextSel ==
    \/ CallSelectLongitudinal
    \/ CallSelectStirrup
    \/ CallSelectSkin
    \/ CallDesignFlexure
    \/ CallRunChecks
    \/ SelReturn

SpecSel == InitSel /\ [][NextSel]_vars

\* ----------------------------------------------------- SpecSolve: the spec
\* The solver called directly on beams given in numbers.
NextSolve ==
    \/ CallSolve
    \/ SelReturn

SpecSolve == InitSel /\ [][NextSolve]_vars

\* --------------------------------------------------- SpecExport: the spec
\* The reaction export called directly on beams given in numbers.
NextExport ==
    \/ CallCalculateReactions
    \/ SelReturn

SpecExport == InitSel /\ [][NextExport]_vars

\* -------------------------------------------------- SpecMeasure: the spec
\* Step D of an optimizer trial on spans given in numbers.
NextMeasure ==
    \/ CallTrialEntry
    \/ SelReturn

SpecMeasure == InitSel /\ [][NextMeasure]_vars

\* --------------------------------------------------- SpecReport: the spec
\* The selection and the report of optimize_beam on given trial lists.
NextReport ==
    \/ CallReport
    \/ SelReturn

SpecReport == InitSel /\ [][NextReport]_vars

====
